---- MODULE Spec2Model ----
(***************************************************************************)
(* A model of the coffeejournal backend: the JSON repositories             *)
(* (repositories/json_repository.py), the lookup handlers (lookups.py)     *)
(* and the product / batch / brew-session handlers (main.py).              *)
(*                                                                         *)
(* A table file is a sequence of records; a record is a function from      *)
(* field names to values, so that a Python dict's "key absent" is a name   *)
(* outside the record's DOMAIN.  A name is a sequence of one-character     *)
(* strings, so that str.strip() and str.lower() are computed.              *)
(***************************************************************************)
EXTENDS Integers, Sequences, FiniteSets, TLC

VARIABLES db, now, last, prev, pending, start, mig

vars == <<db, now, last, prev, pending, start, mig>>

(* ------------------------------ bounds --------------------------------- *)

\* Largest id a create may assign in the model (caps the id counter).
MaxId == 3

\* Largest number of records a table holds in the model.
MaxRecords == 2

\* Largest number of batches, and of brew sessions, and the largest id either
\* table assigns in the model.
MaxChildren == 1

\* Largest number of products in the specifications of the reference
\* handlers.
MaxReferring == 1

\* Number of request threads that may be inside a repository call at once.
MaxThreads == 2

(* --------------------------- Python values ----------------------------- *)

\* Python's None where an id or a record is expected: ids are positive.
None == 0

\* The record standing for "no record" (Optional[Dict] = None).
NoRecord == [id |-> None]

\* dict.get(key) on a flag: True only if the key is present and is True.
is_true(item, key) == key \in DOMAIN item /\ item[key] = TRUE

\* dict.get(key, default).
get(item, key, default) == IF key \in DOMAIN item THEN item[key] ELSE default

(* ------------------------------ strings -------------------------------- *)

Whitespace == {" "}

lower_char(c) ==
    CASE c = "A" -> "a"
      [] c = "B" -> "b"
      [] OTHER -> c

\* str.lower()
lower(s) == [i \in 1..Len(s) |-> lower_char(s[i])]

RECURSIVE lstrip(_)
lstrip(s) == IF Len(s) > 0 /\ s[1] \in Whitespace THEN lstrip(Tail(s)) ELSE s

RECURSIVE rstrip(_)
rstrip(s) ==
    IF Len(s) > 0 /\ s[Len(s)] \in Whitespace
    THEN rstrip(SubSeq(s, 1, Len(s) - 1))
    ELSE s

\* str.strip()
strip(s) == rstrip(lstrip(s))

\* name.strip().lower(), the key find_by_name compares.
normalized_name(name) == lower(strip(name))

\* The names a client sends ("A", " a ", "B"): the first two are one name
\* after trimming and lowercasing.
Names == { <<"A">>, <<" ", "a", " ">>, <<"B">> }

(* ------------------------- JSONRepositoryBase -------------------------- *)

ids_of(data) == {data[i].id : i \in DOMAIN data}

Max(S) == CHOOSE x \in S : \A y \in S : y <= x

\* A next id taken from the number of records.
get_next_id_by_count(data) == Len(data) + 1

\* _get_next_id
get_next_id(data) == IF Len(data) = 0 THEN 1 ELSE Max(ids_of(data)) + 1

\* The position of the first record with this id, 0 if there is none.
index_of(data, id) ==
    IF \E i \in DOMAIN data : data[i].id = id
    THEN CHOOSE i \in DOMAIN data :
            data[i].id = id /\ \A j \in DOMAIN data : data[j].id = id => i <= j
    ELSE 0

\* find_by_id
find_by_id(data, id) ==
    IF index_of(data, id) = 0 THEN NoRecord ELSE data[index_of(data, id)]

\* The record create() appends: a copy of the data with id and timestamps set.
new_item(all_data, data, t) ==
    ("id" :> get_next_id(all_data)) @@ ("created_at" :> t) @@ ("updated_at" :> t) @@ data

\* create: the table after the write.
create(all_data, data, t) == Append(all_data, new_item(all_data, data, t))

\* An update that lets the caller's fields overwrite the audit fields.
updated_item_from_data(item, id, data, t) ==
    data @@ ("id" :> id) @@ ("created_at" :> get(item, "created_at", t))
         @@ ("updated_at" :> t)

\* The record update() stores in place of item.
updated_item(item, id, data, t) ==
    ("id" :> id) @@ ("created_at" :> get(item, "created_at", t))
                 @@ ("updated_at" :> t) @@ data

\* update: the table after the write (unchanged when the id is not found).
update(all_data, id, data, t) ==
    IF index_of(all_data, id) = 0 THEN all_data
    ELSE [all_data EXCEPT ![index_of(all_data, id)] =
            updated_item(all_data[index_of(all_data, id)], id, data, t)]

\* delete: the table after the write.
delete(all_data, id) == SelectSeq(all_data, LAMBDA item : item.id # id)

(* ------------------------ JSONLookupRepository ------------------------- *)

\* A comparison that forgets to trim and lowercase.
name_matches_exact(item, name) ==
    /\ "name" \in DOMAIN item
    /\ Len(item.name) > 0
    /\ item.name = name

\* find_by_name's test of one item against the name sought.
name_matches(item, name) ==
    /\ "name" \in DOMAIN item
    /\ Len(item.name) > 0
    /\ normalized_name(item.name) = normalized_name(name)

\* find_by_name
find_by_name(data, name) ==
    IF Len(name) = 0 THEN NoRecord
    ELSE IF \E i \in DOMAIN data : name_matches(data[i], name)
    THEN data[CHOOSE i \in DOMAIN data :
                 /\ name_matches(data[i], name)
                 /\ \A j \in DOMAIN data : name_matches(data[j], name) => i <= j]
    ELSE NoRecord

\* A get_or_create that never looks for an existing record.
get_or_create_always(data, name, t) ==
    [table |-> create(data, [name |-> name], t),
     item |-> new_item(data, [name |-> name], t), existing |-> FALSE]

\* get_or_create: the table after the call, the record returned, and whether
\* find_by_name found it.
get_or_create(data, name, t) ==
    IF find_by_name(data, name).id # None
    THEN [table |-> data, item |-> find_by_name(data, name), existing |-> TRUE]
    ELSE [table |-> create(data, [name |-> name], t),
          item |-> new_item(data, [name |-> name], t), existing |-> FALSE]

\* find_by_short_form's test of one item: item.get('short_form') == short_form.
short_form_matches(item, short_form) ==
    "short_form" \in DOMAIN item /\ item.short_form = short_form

\* find_by_short_form
find_by_short_form(data, short_form) ==
    IF Len(short_form) = 0 THEN NoRecord
    ELSE IF \E i \in DOMAIN data : short_form_matches(data[i], short_form)
    THEN data[CHOOSE i \in DOMAIN data :
                 /\ short_form_matches(data[i], short_form)
                 /\ \A j \in DOMAIN data : short_form_matches(data[j], short_form) => i <= j]
    ELSE NoRecord

\* find_by_name_or_short_form: the name first, then the short form.
find_by_name_or_short_form(data, identifier) ==
    IF find_by_name(data, identifier).id # None THEN find_by_name(data, identifier)
    ELSE find_by_short_form(data, identifier)

\* get_or_create_by_identifier: the table after the call, the record
\* returned, and whether find_by_name_or_short_form found it.
get_or_create_by_identifier(data, identifier, t) ==
    IF find_by_name_or_short_form(data, identifier).id # None
    THEN [table |-> data, item |-> find_by_name_or_short_form(data, identifier),
          existing |-> TRUE]
    ELSE [table |-> create(data, [name |-> identifier], t),
          item |-> new_item(data, [name |-> identifier], t), existing |-> FALSE]

\* A set_default that marks the item and leaves the other flags alone.
set_default_keeps_others(all_data, item_id) ==
    [i \in DOMAIN all_data |->
        IF all_data[i].id = item_id
        THEN ("is_default" :> TRUE) @@ all_data[i]
        ELSE all_data[i]]

\* set_default: the loop over all_data.
set_default(all_data, item_id) ==
    [i \in DOMAIN all_data |->
        IF all_data[i].id = item_id
        THEN ("is_default" :> TRUE) @@ all_data[i]
        ELSE IF is_true(all_data[i], "is_default")
        THEN ("is_default" :> FALSE) @@ all_data[i]
        ELSE all_data[i]]

\* A set_default that writes the table before it looks whether the item was
\* found.
set_default_writes_first(all_data, item_id) == set_default(all_data, item_id)

\* set_default, the file after the call: "if updated_item is None: raise
\* ValueError" comes before _write_data, so a missing id writes nothing.
set_default_written(all_data, item_id) ==
    IF find_by_id(all_data, item_id).id = None THEN all_data
    ELSE set_default(all_data, item_id)

\* clear_default: the loop over all_data, which stops at the first match.
clear_default(all_data, item_id) ==
    [i \in DOMAIN all_data |->
        IF i = index_of(all_data, item_id)
        THEN ("is_default" :> FALSE) @@ all_data[i]
        ELSE all_data[i]]

\* find_default
find_default(data) ==
    IF \E i \in DOMAIN data : is_true(data[i], "is_default")
    THEN data[CHOOSE i \in DOMAIN data :
                 /\ is_true(data[i], "is_default")
                 /\ \A j \in DOMAIN data : is_true(data[j], "is_default") => i <= j]
    ELSE NoRecord

(* ------------------------------- state --------------------------------- *)

\* db[t]: the content of table t's JSON file.  now: the wall clock.
\* last: the call most recently served and what it returned; prev: the call
\* served before it, kept while both are calls of a lookup repository.
\* pending[th]: where request thread th stands inside a repository call (the
\* copy of the file it read, the call it is serving); start: the table as it
\* was when the first of the calls now in flight began.  mig: the schema
\* version file, the data directory's version file, the migrations
\* registered, and where the start of the process stands; whether an earlier
\* run on the data directory raised after it had rewritten a file, and the
\* data files as the first process found them.

AllTables ==
    {"roasters", "bean_types", "filters", "grinders", "products", "batches", "brew_sessions"}

NoCall ==
    [op |-> "none", tbl |-> "none", id |-> None, name |-> <<>>, ret |-> None,
     ok |-> TRUE, n_before |-> 0, found |-> FALSE,
     action |-> "none", updated_count |-> 0, held |-> {}, held_sessions |-> {},
     supplied |-> FALSE, raised |-> FALSE, response |-> <<>>, status |-> 0]

\* A call record: the fields given, the others as in NoCall.
Call(fields) == fields @@ NoCall

\* The calls of a lookup repository and its endpoints.
LookupOps == {"create", "update", "delete", "set_default", "clear_default", "get_or_create"}

\* What a lookup call keeps as prev: the last call, if it was a lookup call.
History == IF last.op \in LookupOps THEN last ELSE NoCall

\* _ensure_file_exists: every table file starts as the empty list.
Threads == 1..MaxThreads

\* A thread that is serving no call.
Idle == [pc |-> "idle", op |-> "none", id |-> None, data |-> [name |-> <<>>], local |-> <<>>]

\* The process has started on a data directory that is up to date: no
\* migration was needed, the blueprints are registered.
Started ==
    [entry |-> "create_app", pc |-> "serving",
     schema_file |-> <<"1", ".", "2">>, data_version_file |-> <<"1", ".", "2">>,
     migrations |-> {}, needed |-> FALSE, backed_up |-> FALSE, ran |-> <<>>,
     returned |-> "none", raised |-> FALSE, interrupted |-> FALSE, found |-> <<>>]

Init ==
    /\ db = [t \in AllTables |-> <<>>]
    /\ now = 0
    /\ last = NoCall
    /\ prev = NoCall
    /\ pending = [th \in Threads |-> Idle]
    /\ start = <<>>
    /\ mig = Started

RoomFor(t) == Len(db[t]) < MaxRecords /\ get_next_id(db[t]) <= MaxId

Ids == 1..MaxId

(* ------------------------ lookup endpoints ----------------------------- *)

\* POST /<table>: validate_lookup_data, then repository create.
create_roaster(t, data) ==
    /\ RoomFor(t)
    /\ Len(strip(data.name)) > 0
    /\ db' = [db EXCEPT ![t] = create(db[t], data, now)]
    /\ last' = Call([op |-> "create", tbl |-> t, name |-> data.name,
                     ret |-> new_item(db[t], data, now).id, n_before |-> Len(db[t])])
    /\ prev' = History
    /\ UNCHANGED <<now, pending, start, mig>>

\* PUT /<table>/<id>: repository update; 404 when update returns None.
update_roaster(t, id, data) ==
    /\ db' = [db EXCEPT ![t] = update(db[t], id, data, now)]
    /\ last' = Call([op |-> "update", tbl |-> t, id |-> id, name |-> data.name,
                     ret |-> find_by_id(db[t], id).id,
                     ok |-> find_by_id(db[t], id).id # None, n_before |-> Len(db[t]),
                     supplied |-> "created_at" \in DOMAIN data])
    /\ prev' = History
    /\ UNCHANGED <<now, pending, start, mig>>

\* DELETE /<table>/<id>: repository delete; 404 when nothing was removed.
delete_roaster(t, id) ==
    /\ db' = [db EXCEPT ![t] = delete(db[t], id)]
    /\ last' = Call([op |-> "delete", tbl |-> t, id |-> id,
                     ok |-> Len(delete(db[t], id)) < Len(db[t]),
                     n_before |-> Len(db[t])])
    /\ prev' = History
    /\ UNCHANGED <<now, pending, start, mig>>

\* A call of JSONLookupRepository.set_default: it raises when the id is not
\* found, and then writes nothing.
SetDefault(t, item_id) ==
    /\ db' = [db EXCEPT ![t] = set_default_written(db[t], item_id)]
    /\ last' = Call([op |-> "set_default", tbl |-> t, id |-> item_id,
                     ret |-> find_by_id(db[t], item_id).id,
                     ok |-> find_by_id(db[t], item_id).id # None,
                     n_before |-> Len(db[t])])
    /\ prev' = History
    /\ UNCHANGED <<now, pending, start, mig>>

\* A call of JSONLookupRepository.clear_default: it raises when the id is
\* not found, and then writes nothing.
ClearDefault(t, item_id) ==
    /\ db' = [db EXCEPT ![t] =
                IF find_by_id(db[t], item_id).id = None THEN db[t]
                ELSE clear_default(db[t], item_id)]
    /\ last' = Call([op |-> "clear_default", tbl |-> t, id |-> item_id,
                     ret |-> find_by_id(db[t], item_id).id,
                     ok |-> find_by_id(db[t], item_id).id # None,
                     n_before |-> Len(db[t])])
    /\ prev' = History
    /\ UNCHANGED <<now, pending, start, mig>>

\* A call of JSONLookupRepository.get_or_create, as the product and
\* brew-session handlers make it: a non-empty name, no extra fields.
GetOrCreate(t, name) ==
    /\ get_or_create(db[t], name, now).existing \/ RoomFor(t)
    /\ db' = [db EXCEPT ![t] = get_or_create(db[t], name, now).table]
    /\ last' = Call([op |-> "get_or_create", tbl |-> t, name |-> name,
                     ret |-> get_or_create(db[t], name, now).item.id,
                     found |-> get_or_create(db[t], name, now).existing,
                     n_before |-> Len(db[t])])
    /\ prev' = History
    /\ UNCHANGED <<now, pending, start, mig>>

\* A call of JSONLookupRepository.get_or_create_by_identifier with a
\* non-empty identifier and no extra fields.
GetOrCreateByIdentifier(t, identifier) ==
    /\ get_or_create_by_identifier(db[t], identifier, now).existing \/ RoomFor(t)
    /\ db' = [db EXCEPT ![t] = get_or_create_by_identifier(db[t], identifier, now).table]
    /\ last' = Call([op |-> "get_or_create_by_identifier", tbl |-> t, name |-> identifier,
                     ret |-> get_or_create_by_identifier(db[t], identifier, now).item.id,
                     found |-> get_or_create_by_identifier(db[t], identifier, now).existing,
                     n_before |-> Len(db[t])])
    /\ prev' = NoCall
    /\ UNCHANGED <<now, pending, start, mig>>

(* ------------- Spec: one lookup table and its default flag ------------- *)

\* The bodies a client posts to /roasters: with or without an is_default flag.
DefaultData ==
    {[name |-> <<"A">>]} \cup {[name |-> <<"A">>, is_default |-> b] : b \in BOOLEAN}

Next ==
    \/ \E data \in DefaultData : create_roaster("roasters", data)
    \/ \E id \in Ids, data \in DefaultData : update_roaster("roasters", id, data)
    \/ \E id \in Ids : delete_roaster("roasters", id)
    \/ \E id \in Ids : SetDefault("roasters", id)
    \/ \E id \in Ids : ClearDefault("roasters", id)

Spec == Init /\ [][Next]_vars

(* ------------- SpecNames: one lookup table and its names --------------- *)

NameData == {[name |-> n] : n \in Names}

NextNames ==
    \/ \E data \in NameData : create_roaster("filters", data)
    \/ \E id \in Ids, data \in NameData : update_roaster("filters", id, data)
    \/ \E id \in Ids : delete_roaster("filters", id)
    \/ \E name \in Names : GetOrCreate("filters", name)

SpecNames == Init /\ [][NextNames]_vars

(* ---------------- products, batches and brew sessions ------------------ *)

\* The tables of d stay within the model's bounds.
Bounded(d) ==
    /\ \A t \in AllTables \ {"batches", "brew_sessions"} :
          /\ Len(d[t]) <= MaxRecords
          /\ \A i \in DOMAIN d[t] : d[t][i].id <= MaxId
    /\ \A t \in {"batches", "brew_sessions"} :
          /\ Len(d[t]) <= MaxChildren
          /\ \A i \in DOMAIN d[t] : d[t][i].id <= MaxChildren

\* The names of a posted list that are not empty (if bt_name:).
truthy_names(names) == SelectSeq(names, LAMBDA n : Len(n) > 0)

\* The loop "for bt_name in bean_type_list: bt = get_or_create(bt_name)":
\* the table after the loop and the records it collected.
RECURSIVE get_or_create_each(_, _, _)
get_or_create_each(data, names, t) ==
    IF names = <<>> THEN [table |-> data, items |-> <<>>]
    ELSE LET first == get_or_create(data, Head(names), t)
             rest == get_or_create_each(first.table, Tail(names), t)
         IN [table |-> rest.table, items |-> <<first.item>> \o rest.items]

\* The ids of the records of a table whose field key holds id.
referring(data, key, id) ==
    {data[i].id : i \in {j \in DOMAIN data : get(data[j], key, None) = id}}

\* POST /products: the roaster and the bean types are resolved by name with
\* get_or_create, the product stores their names and their ids.
create_product(data) ==
    LET roaster == get_or_create(db["roasters"], data.roaster, now)
        bean_types == get_or_create_each(db["bean_types"],
                          truthy_names(get(data, "bean_type", <<>>)), now)
        product_data ==
            [roaster |-> roaster.item.name,
             roaster_id |-> roaster.item.id,
             bean_type |-> [i \in DOMAIN bean_types.items |-> bean_types.items[i].name],
             bean_type_id |-> [i \in DOMAIN bean_types.items |-> bean_types.items[i].id]]
    IN /\ "roaster" \in DOMAIN data /\ Len(data.roaster) > 0
       /\ db' = [db EXCEPT !["roasters"] = roaster.table,
                           !["bean_types"] = bean_types.table,
                           !["products"] = create(db["products"], product_data, now)]
       /\ Bounded(db')
       /\ last' = Call([op |-> "create_product", tbl |-> "products"])
       /\ prev' = NoCall
       /\ UNCHANGED <<now, pending, start, mig>>

\* POST /products/<product_id>/batches: 404 when the product is missing,
\* otherwise a batch with the product_id of the URL.
handle_product_batches(product_id) ==
    LET product == find_by_id(db["products"], product_id)
        batch_data == [product_id |-> product_id]
    IN /\ db' = IF product.id = None THEN db
                ELSE [db EXCEPT !["batches"] = create(db["batches"], batch_data, now)]
       /\ Bounded(db')
       /\ last' = Call([op |-> "create_batch", tbl |-> "batches",
                        ok |-> product.id # None])
       /\ prev' = NoCall
       /\ UNCHANGED <<now, pending, start, mig>>

\* POST /products/<product_id>/batches of api/products.py: as main.py's, with
\* the posted rating and 'is_active': data.get('is_active', True).
products_handle_product_batches(product_id, data) ==
    LET product == find_by_id(db["products"], product_id)
        batch_data == [product_id |-> product_id, rating |-> get(data, "rating", None),
                       is_active |-> get(data, "is_active", TRUE)]
    IN /\ db' = IF product.id = None THEN db
                ELSE [db EXCEPT !["batches"] = create(db["batches"], batch_data, now)]
       /\ Bounded(db')
       /\ last' = Call([op |-> "create_batch", tbl |-> "batches",
                        ok |-> product.id # None])
       /\ prev' = NoCall
       /\ UNCHANGED <<now, pending, start, mig>>

\* PUT /batches/<batch_id> (main.py and api/batches.py alike): 404 when the
\* batch or the product named (the posted product_id, the batch's own by
\* default) is missing; batch_data holds the product_id and the fields read
\* from the body (the rating among them), and no is_active.
update_batch(batch_id, data) ==
    LET existing_batch == find_by_id(db["batches"], batch_id)
        product_id == get(data, "product_id", existing_batch.product_id)
        product == find_by_id(db["products"], product_id)
        batch_data == [product_id |-> product_id, rating |-> get(data, "rating", None)]
        found == existing_batch.id # None /\ product.id # None
    IN /\ db' = IF found
                THEN [db EXCEPT !["batches"] = update(db["batches"], batch_id, batch_data, now)]
                ELSE db
       /\ last' = Call([op |-> "update_batch", tbl |-> "batches", ok |-> found])
       /\ prev' = NoCall
       /\ UNCHANGED <<now, pending, start, mig>>

\* A delete_by_product that compares the child's own id.
delete_by_product_own_id(all_data, product_id) ==
    SelectSeq(all_data, LAMBDA item : item.id # product_id)

\* CoffeeBatchRepository.delete_by_product, BrewSessionRepository.delete_by_product
delete_by_product(all_data, product_id) ==
    SelectSeq(all_data, LAMBDA item : get(item, "product_id", None) # product_id)

\* BrewSessionRepository.delete_by_batch
delete_by_batch(all_data, batch_id) ==
    SelectSeq(all_data, LAMBDA item : get(item, "product_batch_id", None) # batch_id)

\* DELETE /products/<product_id>: 404 when the product is missing; otherwise
\* its brew sessions, its batches and the product are deleted.
delete_product(product_id) ==
    LET product == find_by_id(db["products"], product_id)
    IN /\ db' = IF product.id = None THEN db
                ELSE [db EXCEPT
                        !["brew_sessions"] = delete_by_product(db["brew_sessions"], product_id),
                        !["batches"] = delete_by_product(db["batches"], product_id),
                        !["products"] = delete(db["products"], product_id)]
       /\ last' = Call([op |-> "delete_product", tbl |-> "products",
                        id |-> IF product.id # None THEN product_id ELSE None,
                        ok |-> product.id # None,
                        held |-> referring(db["batches"], "product_id", product_id),
                        held_sessions |->
                            referring(db["brew_sessions"], "product_id", product_id)])
       /\ prev' = NoCall
       /\ UNCHANGED <<now, pending, start, mig>>

\* DELETE /batches/<batch_id>: 404 when the batch is missing; otherwise its
\* brew sessions and the batch are deleted.
delete_batch(batch_id) ==
    LET batch == find_by_id(db["batches"], batch_id)
    IN /\ db' = IF batch.id = None THEN db
                ELSE [db EXCEPT
                        !["brew_sessions"] = delete_by_batch(db["brew_sessions"], batch_id),
                        !["batches"] = delete(db["batches"], batch_id)]
       /\ last' = Call([op |-> "delete_batch", tbl |-> "batches",
                        id |-> IF batch.id # None THEN batch_id ELSE None,
                        ok |-> batch.id # None,
                        held_sessions |->
                            referring(db["brew_sessions"], "product_batch_id", batch_id)])
       /\ prev' = NoCall
       /\ UNCHANGED <<now, pending, start, mig>>

\* A tasting score or the overall score of a body is in range: "if
\* field_value is not None and (field_value < 1 or field_value > 10)" (the
\* scores a client sends being whole numbers).
in_range(data, key) == key \in DOMAIN data => (data[key] >= 1 /\ data[key] <= 10)

\* validation_errors is empty (of the tasting scores, sweetness stands for
\* the six).
valid_scores(data) == in_range(data, "sweetness") /\ in_range(data, "score")

\* POST /batches/<batch_id>/brew_sessions: 404 when the batch is missing;
\* otherwise the filter named is resolved with get_or_create and a session is
\* created with the batch_id of the URL and the batch's product_id.  The
\* grinder is resolved as the filter is (and so are the brew method, the
\* recipe, the kettle and the scale).  The scores are validated after the
\* lookups are resolved: a body with a score out of range gets 400 and no
\* session.
handle_batch_brew_sessions(batch_id, data) ==
    LET batch == find_by_id(db["batches"], batch_id)
        named == "filter" \in DOMAIN data /\ Len(data.filter) > 0
        filter_type == get_or_create(db["filters"], get(data, "filter", <<>>), now)
        grinder_named == "grinder" \in DOMAIN data /\ Len(data.grinder) > 0
        grinder == get_or_create(db["grinders"], get(data, "grinder", <<>>), now)
        session_data ==
            [product_batch_id |-> batch_id,
             product_id |-> get(batch, "product_id", None),
             grinder_id |-> IF grinder_named THEN grinder.item.id
                            ELSE get(data, "grinder_id", None),
             filter_id |-> IF named THEN filter_type.item.id
                           ELSE get(data, "filter_id", None),
             sweetness |-> get(data, "sweetness", None),
             score |-> get(data, "score", None)]
        valid == valid_scores(data)
    IN /\ db' = IF batch.id = None THEN db
                ELSE [db EXCEPT
                        !["filters"] = IF named THEN filter_type.table ELSE @,
                        !["grinders"] = IF grinder_named THEN grinder.table ELSE @,
                        !["brew_sessions"] =
                            IF valid THEN create(db["brew_sessions"], session_data, now)
                            ELSE @]
       /\ Bounded(db')
       /\ last' = Call([op |-> "create_brew_session", tbl |-> "brew_sessions",
                        ok |-> batch.id # None /\ valid,
                        status |-> IF batch.id = None THEN 404
                                   ELSE IF valid THEN 201 ELSE 400])
       /\ prev' = NoCall
       /\ UNCHANGED <<now, pending, start, mig>>

\* PUT /brew_sessions/<session_id>: 404 when the session, the product or the
\* batch named (the posted ids, the session's own by default) is missing; the
\* product and the batch are looked up each on its own.
update_brew_session(session_id, data) ==
    LET existing_session == find_by_id(db["brew_sessions"], session_id)
        product_batch_id == get(data, "product_batch_id", existing_session.product_batch_id)
        product_id == get(data, "product_id", existing_session.product_id)
        product == find_by_id(db["products"], product_id)
        batch == find_by_id(db["batches"], product_batch_id)
        named == "filter" \in DOMAIN data /\ Len(data.filter) > 0
        filter_type == get_or_create(db["filters"], get(data, "filter", <<>>), now)
        grinder_named == "grinder" \in DOMAIN data /\ Len(data.grinder) > 0
        grinder == get_or_create(db["grinders"], get(data, "grinder", <<>>), now)
        session_data ==
            [product_batch_id |-> product_batch_id,
             product_id |-> product_id,
             grinder_id |-> IF grinder_named THEN grinder.item.id ELSE None,
             filter_id |-> IF named THEN filter_type.item.id ELSE None,
             sweetness |-> get(data, "sweetness", None),
             score |-> get(data, "score", None)]
        found == existing_session.id # None /\ product.id # None /\ batch.id # None
        valid == valid_scores(data)
    IN /\ db' = IF found
                THEN [db EXCEPT
                        !["filters"] = IF named THEN filter_type.table ELSE @,
                        !["grinders"] = IF grinder_named THEN grinder.table ELSE @,
                        !["brew_sessions"] =
                            IF valid
                            THEN update(db["brew_sessions"], session_id, session_data, now)
                            ELSE @]
                ELSE db
       /\ Bounded(db')
       /\ last' = Call([op |-> "update_brew_session", tbl |-> "brew_sessions",
                        ok |-> found /\ valid,
                        status |-> IF ~found THEN 404 ELSE IF valid THEN 200 ELSE 400])
       /\ prev' = NoCall
       /\ UNCHANGED <<now, pending, start, mig>>

\* PUT /brew_sessions/<session_id> of api/batches.py: 404 when the session,
\* the product or the batch named is missing, 400 when the batch is not one
\* of the product's; the lookups named are resolved with
\* get_or_create_by_identifier, then the scores are validated (400), and the
\* fields not posted keep the session's values.
batches_update_brew_session(session_id, data) ==
    LET existing_session == find_by_id(db["brew_sessions"], session_id)
        product_batch_id == get(data, "product_batch_id", existing_session.product_batch_id)
        product_id == get(data, "product_id", existing_session.product_id)
        product == find_by_id(db["products"], product_id)
        batch == find_by_id(db["batches"], product_batch_id)
        named == "filter" \in DOMAIN data /\ Len(data.filter) > 0
        filter_type == get_or_create_by_identifier(db["filters"], get(data, "filter", <<>>), now)
        grinder_named == "grinder" \in DOMAIN data /\ Len(data.grinder) > 0
        grinder == get_or_create_by_identifier(db["grinders"], get(data, "grinder", <<>>), now)
        session_data ==
            [product_batch_id |-> product_batch_id,
             product_id |-> product_id,
             grinder_id |-> IF grinder_named THEN grinder.item.id
                            ELSE get(existing_session, "grinder_id", None),
             filter_id |-> IF named THEN filter_type.item.id
                           ELSE get(existing_session, "filter_id", None),
             sweetness |-> get(data, "sweetness", get(existing_session, "sweetness", None)),
             score |-> get(data, "score", get(existing_session, "score", None))]
                @@ existing_session
        checked ==
            IF existing_session.id = None \/ product.id = None \/ batch.id = None THEN 404
            ELSE IF batch.product_id # product_id THEN 400
            ELSE 200
        valid == valid_scores(data)
        status == IF checked = 200 /\ ~valid THEN 400 ELSE checked
    IN /\ db' = IF checked = 200
                THEN [db EXCEPT
                        !["filters"] = IF named THEN filter_type.table ELSE @,
                        !["grinders"] = IF grinder_named THEN grinder.table ELSE @,
                        !["brew_sessions"] =
                            IF valid
                            THEN update(db["brew_sessions"], session_id, session_data, now)
                            ELSE @]
                ELSE db
       /\ Bounded(db')
       /\ last' = Call([op |-> "batches_update_brew_session", tbl |-> "brew_sessions",
                        ok |-> status = 200, status |-> status])
       /\ prev' = NoCall
       /\ UNCHANGED <<now, pending, start, mig>>

\* DELETE /brew_sessions/<session_id>
delete_brew_session(session_id) ==
    LET session == find_by_id(db["brew_sessions"], session_id)
    IN /\ db' = [db EXCEPT !["brew_sessions"] = delete(db["brew_sessions"], session_id)]
       /\ last' = Call([op |-> "delete_brew_session", tbl |-> "brew_sessions",
                        ok |-> session.id # None])
       /\ prev' = NoCall
       /\ UNCHANGED <<now, pending, start, mig>>

(* -------- SpecCascade: products, their batches, their sessions --------- *)

CascadeProducts == {[roaster |-> <<"A">>]}

BatchData == {[notes |-> "n"]} \cup {[product_id |-> p] : p \in Ids}

SessionData == {[notes |-> "n"]}

SessionUpdates ==
    {[notes |-> "n"]} \cup {[product_id |-> p] : p \in Ids}
                      \cup {[product_batch_id |-> b] : b \in Ids}

NextCascade ==
    \/ \E data \in CascadeProducts : create_product(data)
    \/ \E p \in Ids : handle_product_batches(p)
    \/ \E b \in Ids, data \in BatchData : update_batch(b, data)
    \/ \E b \in Ids, data \in SessionData : handle_batch_brew_sessions(b, data)
    \/ \E s \in Ids, data \in SessionUpdates : update_brew_session(s, data)
    \/ \E p \in Ids : delete_product(p)
    \/ \E b \in Ids : delete_batch(b)
    \/ \E s \in Ids : delete_brew_session(s)

SpecCascade == Init /\ [][NextCascade]_vars

(* ------------------------ reference integrity -------------------------- *)

\* The body of a usage response, and the 404 a missing lookup record gets.
UsageResponse(usage_count) ==
    [status |-> 200, in_use |-> usage_count > 0, usage_count |-> usage_count]

UsageNotFound == [status |-> 404, in_use |-> FALSE, usage_count |-> -1]

\* Python's "x in list".
Contains(list, x) == \E i \in DOMAIN list : list[i] = x

\* GET /roasters/<id>/usage of lookups.py: products whose roaster_id is the id.
check_roaster_usage(d, roaster_id) ==
    IF find_by_id(d["roasters"], roaster_id).id = None THEN UsageNotFound
    ELSE UsageResponse(Cardinality({i \in DOMAIN d["products"] :
            get(d["products"][i], "roaster_id", None) = roaster_id}))

\* GET /roasters/<id>/usage of main.py: products whose roaster field is the
\* roaster's name.
api_check_roaster_usage(d, roaster_id) ==
    IF find_by_id(d["roasters"], roaster_id).id = None THEN UsageNotFound
    ELSE UsageResponse(Cardinality({i \in DOMAIN d["products"] :
            /\ "roaster" \in DOMAIN d["products"][i]
            /\ d["products"][i].roaster = find_by_id(d["roasters"], roaster_id).name}))

\* GET /bean_types/<id>/usage of lookups.py: products whose bean_type_id list
\* holds the id.
check_bean_type_usage(d, bean_type_id) ==
    IF find_by_id(d["bean_types"], bean_type_id).id = None THEN UsageNotFound
    ELSE UsageResponse(Cardinality({i \in DOMAIN d["products"] :
            Contains(get(d["products"][i], "bean_type_id", <<>>), bean_type_id)}))

\* A rewrite of a product's roaster_id that replaces nothing.
roaster_reference_kept(product, action, replacement_id) ==
    IF action = "remove" THEN ("roaster_id" :> None) @@ product ELSE product

\* lookups.py update_roaster_references, the body of the loop: the product
\* as it is handed to update().
roaster_reference(product, action, replacement_id) ==
    IF action = "remove" THEN ("roaster_id" :> None) @@ product
    ELSE IF action = "replace" /\ replacement_id # None
    THEN ("roaster_id" :> replacement_id) @@ product
    ELSE product

\* main.py update_roaster_references, the body of the loop: the name is
\* emptied or replaced by the replacement's name when the replacement exists.
api_roaster_reference(product, action, replacement) ==
    IF action = "remove" THEN ("roaster" :> <<>>) @@ product
    ELSE IF action = "replace" /\ replacement.id # None
    THEN ("roaster" :> replacement.name) @@ product
    ELSE product

\* lookups.py update_bean_type_references, the list branch of the loop.
bean_type_reference(product, bean_type_id, action, replacement_id) ==
    LET bean_type_ids == get(product, "bean_type_id", <<>>)
    IN IF action = "remove"
       THEN ("bean_type_id" :> SelectSeq(bean_type_ids, LAMBDA bt_id : bt_id # bean_type_id))
                @@ product
       ELSE ("bean_type_id" :> [i \in DOMAIN bean_type_ids |->
                                   IF bean_type_ids[i] = bean_type_id THEN replacement_id
                                   ELSE bean_type_ids[i]]) @@ product

\* The record of an update_references call: what was asked and the
\* updated_count returned, or the 404.
ReferencesCall(op, tbl, found, id, action, count) ==
    IF found
    THEN Call([op |-> op, tbl |-> tbl, id |-> id, action |-> action, updated_count |-> count])
    ELSE Call([op |-> op, tbl |-> tbl, ok |-> FALSE])

\* POST /roasters/<id>/update_references of lookups.py: 404 when the roaster
\* is missing; every product whose roaster_id is the id is rewritten, stored
\* with update() and counted.
update_roaster_references(roaster_id, action, replacement_id) ==
    LET roaster == find_by_id(db["roasters"], roaster_id)
        products == db["products"]
        Matches(product) == get(product, "roaster_id", None) = roaster_id
        New(product) == roaster_reference(product, action, replacement_id)
        rewritten ==
            [i \in DOMAIN products |->
                IF Matches(products[i])
                THEN updated_item(products[i], products[i].id, New(products[i]), now)
                ELSE products[i]]
    IN /\ db' = IF roaster.id = None THEN db ELSE [db EXCEPT !["products"] = rewritten]
       /\ last' = ReferencesCall("update_roaster_references", "roasters",
                      roaster.id # None, roaster_id, action,
                      Cardinality({i \in DOMAIN products : Matches(products[i])}))
       /\ prev' = NoCall
       /\ UNCHANGED <<now, pending, start, mig>>

\* POST /roasters/<id>/update_references of main.py: 404 when the roaster is
\* missing; every product whose roaster field is the roaster's name is
\* rewritten, stored with update() and counted.
api_update_roaster_references(roaster_id, action, replacement_id) ==
    LET roaster == find_by_id(db["roasters"], roaster_id)
        replacement == IF replacement_id # None
                       THEN find_by_id(db["roasters"], replacement_id) ELSE NoRecord
        products == db["products"]
        Matches(product) == "roaster" \in DOMAIN product /\ product.roaster = roaster.name
        New(product) == api_roaster_reference(product, action, replacement)
        rewritten ==
            [i \in DOMAIN products |->
                IF Matches(products[i])
                THEN updated_item(products[i], products[i].id, New(products[i]), now)
                ELSE products[i]]
    IN /\ db' = IF roaster.id = None THEN db ELSE [db EXCEPT !["products"] = rewritten]
       /\ last' = ReferencesCall("api_update_roaster_references", "roasters",
                      roaster.id # None, roaster_id, action,
                      Cardinality({i \in DOMAIN products : Matches(products[i])}))
       /\ prev' = NoCall
       /\ UNCHANGED <<now, pending, start, mig>>

\* POST /bean_types/<id>/update_references of lookups.py: 404 when the bean
\* type is missing; a product whose bean_type_id list holds the id is
\* rewritten, stored and counted when the action is remove, or replace with
\* a replacement_id given.
update_bean_type_references(bean_type_id, action, replacement_id) ==
    LET bean_type == find_by_id(db["bean_types"], bean_type_id)
        products == db["products"]
        Holds(product) == Contains(get(product, "bean_type_id", <<>>), bean_type_id)
        Matches(product) ==
            /\ Holds(product)
            /\ action = "remove" \/ (action = "replace" /\ replacement_id # None)
        New(product) == bean_type_reference(product, bean_type_id, action, replacement_id)
        rewritten ==
            [i \in DOMAIN products |->
                IF Matches(products[i])
                THEN updated_item(products[i], products[i].id, New(products[i]), now)
                ELSE products[i]]
    IN /\ db' = IF bean_type.id = None THEN db ELSE [db EXCEPT !["products"] = rewritten]
       /\ last' = ReferencesCall("update_bean_type_references", "bean_types",
                      bean_type.id # None, bean_type_id, action,
                      Cardinality({i \in DOMAIN products : Matches(products[i])}))
       /\ prev' = NoCall
       /\ UNCHANGED <<now, pending, start, mig>>

(* ---------- SpecRefs: roasters and the products naming them ------------ *)

RefNames == { <<"A">>, <<"B">> }

RefProducts == {[roaster |-> n] : n \in RefNames}

\* The ids a client names for a table: those of its records, and the next
\* free one for an id that resolves to no record.
IdsFor(t) == (ids_of(db[t]) \cup {get_next_id(db[t])}) \cap Ids

\* The bodies posted to update_references of table t: remove, replace
\* without a replacement_id, replace with one.
ReferenceUpdates(t) ==
    {[action |-> "remove", replacement_id |-> None]}
        \cup {[action |-> "replace", replacement_id |-> r] : r \in IdsFor(t) \cup {None}}

\* POST /products while the products table has room in the model.
create_referring_product(data) ==
    /\ create_product(data)
    /\ Len(db'["products"]) <= MaxReferring

NextRefs ==
    \/ create_roaster("roasters", [name |-> <<"A">>])
    \/ \E data \in RefProducts : create_referring_product(data)
    \/ \E id \in IdsFor("roasters"), u \in ReferenceUpdates("roasters") :
          update_roaster_references(id, u.action, u.replacement_id)
    \/ \E id \in IdsFor("roasters"), u \in ReferenceUpdates("roasters") :
          api_update_roaster_references(id, u.action, u.replacement_id)

SpecRefs == Init /\ [][NextRefs]_vars

(* --------- SpecBeans: bean types and the products listing them --------- *)

BeanProducts ==
    {[roaster |-> <<"A">>, bean_type |-> << <<"A">> >>],
     [roaster |-> <<"A">>, bean_type |-> << <<"B">> >>],
     [roaster |-> <<"A">>, bean_type |-> << <<"A">>, <<"B">> >>]}

NextBeans ==
    \/ create_roaster("bean_types", [name |-> <<"A">>])
    \/ \E data \in BeanProducts : create_referring_product(data)
    \/ \E id \in IdsFor("bean_types"), u \in ReferenceUpdates("bean_types") :
          update_bean_type_references(id, u.action, u.replacement_id)

SpecBeans == Init /\ [][NextBeans]_vars

(* ------------- SpecConc: request threads on one table file ------------- *)

\* _read_data and _write_data hold the repository's lock while the file is
\* read or written, and a repository method calls _read_data, computes, and
\* calls _write_data: a thread's call is a read step and a write step, and
\* other threads' steps may fall between the two.

ConcTable == "roasters"

\* The calls the request threads make.
ConcCalls ==
    {[op |-> "create", id |-> None, data |-> [name |-> n]] : n \in RefNames}
        \cup {[op |-> "get_or_create", id |-> None, data |-> [name |-> <<"A">>]]}
        \cup {[op |-> "update", id |-> i, data |-> [name |-> <<"B">>]] : i \in Ids}
        \cup {[op |-> o, id |-> i, data |-> [name |-> <<>>]] :
                 o \in {"delete", "set_default"}, i \in Ids}

\* The table a call leaves when it runs from its read to its write on the
\* table data with no other call in between.
apply(call, data, t) ==
    CASE call.op = "create" -> create(data, call.data, t)
      [] call.op = "update" -> update(data, call.id, call.data, t)
      [] call.op = "delete" -> delete(data, call.id)
      [] call.op = "set_default" ->
            IF find_by_id(data, call.id).id = None THEN data
            ELSE set_default(data, call.id)
      [] call.op = "get_or_create" -> get_or_create(data, call.data.name, t).table

\* The call reaches _write_data: create always, update, delete and
\* set_default when the copy read holds the id.
writes(call, local) ==
    call.op \in {"create", "get_or_create"} \/ find_by_id(local, call.id).id # None

\* The threads that have read the file for a create and not yet written.
Creating ==
    {th \in Threads : /\ pending[th].pc \in {"create", "read"}
                      /\ pending[th].op \in {"create", "get_or_create"}}

\* A thread enters a repository method and makes its first _read_data.
\* get_or_create reads in find_by_name: it is done when the name is found,
\* and goes on to create() when it is not.
BeginCall(th, call) ==
    /\ pending[th].pc = "idle"
    /\ call.op \in {"create", "get_or_create"} =>
          Len(db[ConcTable]) + Cardinality(Creating) < MaxRecords
    /\ pending' = [pending EXCEPT ![th] =
          [pc |-> IF call.op # "get_or_create" THEN "read"
                  ELSE IF find_by_name(db[ConcTable], call.data.name).id # None
                  THEN "done" ELSE "create",
           op |-> call.op, id |-> call.id, data |-> call.data,
           local |-> IF call.op = "get_or_create" THEN <<>> ELSE db[ConcTable]]]
    /\ UNCHANGED <<db, now, last, prev, start, mig>>

\* get_or_create found no record and calls create(), which reads the file.
ReadForCreate(th) ==
    /\ pending[th].pc = "create"
    /\ pending' = [pending EXCEPT ![th].pc = "read", ![th].local = db[ConcTable]]
    /\ UNCHANGED <<db, now, last, prev, start, mig>>

\* The thread computes the new table from the copy it read and writes it.
WriteBack(th) ==
    LET call == pending[th]
        written == IF call.op = "get_or_create"
                   THEN create(call.local, call.data, now)
                   ELSE apply(call, call.local, now)
    IN /\ call.pc = "read"
       /\ db' = IF writes(call, call.local) THEN [db EXCEPT ![ConcTable] = written] ELSE db
       /\ Bounded(db')
       /\ pending' = [pending EXCEPT ![th].pc = "done", ![th].local = <<>>]
       /\ UNCHANGED <<now, last, prev, start, mig>>

\* Every call in flight has returned: the next calls start from this table.
Join ==
    /\ \A th \in Threads : pending[th].pc \in {"idle", "done"}
    /\ \E th \in Threads : pending[th].pc = "done"
    /\ pending' = [th \in Threads |-> Idle]
    /\ start' = db[ConcTable]
    /\ UNCHANGED <<db, now, last, prev, mig>>

NextConc ==
    \/ \E th \in Threads, call \in ConcCalls : BeginCall(th, call)
    \/ \E th \in Threads : ReadForCreate(th)
    \/ \E th \in Threads : WriteBack(th)
    \/ Join

SpecConc == Init /\ [][NextConc]_vars

(* ------------- SpecClock: a lookup table and the wall clock ------------ *)

\* The last reading of the clock in the model.
MaxClock == 2

\* datetime.now(timezone.utc) between two calls: the clock has moved on.
Tick ==
    /\ now < MaxClock
    /\ now' = now + 1
    /\ UNCHANGED <<db, last, prev, pending, start, mig>>

\* The bodies a client puts: a name alone, or a name with audit fields of the
\* client's own (a time no clock reading of the model equals).
ClockData ==
    {[name |-> <<"A">>],
     [name |-> <<"A">>, created_at |-> MaxClock + 1, updated_at |-> MaxClock + 1],
     [name |-> <<"A">>, created_at |-> -1, updated_at |-> -1]}

NextClock ==
    \/ Tick
    \/ \E data \in ClockData : create_roaster("roasters", data)
    \/ \E id \in Ids, data \in ClockData : update_roaster("roasters", id, data)
    \/ \E id \in Ids : delete_roaster("roasters", id)

SpecClock == Init /\ [][NextClock]_vars

(* ----------------------------- enrichment ------------------------------ *)

\* An Optional value of a response: the empty set is None, {x} is x.
name_or_none(record) == IF record.id = None THEN {} ELSE {record.name}

record_or_none(record) == IF record.id = None THEN {} ELSE {record}

\* if item.get(key): the id is there and is neither None nor 0.
truthy_id(item, key) == get(item, key, None) # None

\* api/utils.py enrich_brew_session_with_lookups: each lookup field is set,
\* to the record its id resolves to or to None.
enrich_brew_session_with_lookups(session, d) ==
    ("grinder" :> IF truthy_id(session, "grinder_id")
                  THEN record_or_none(find_by_id(d["grinders"], session.grinder_id))
                  ELSE {})
    @@ ("filter" :> IF truthy_id(session, "filter_id")
                    THEN record_or_none(find_by_id(d["filters"], session.filter_id))
                    ELSE {})
    @@ session

\* main.py, the statement "if session.get('filter_id'): ... session['filter']
\* = filter_lookup['name'] if filter_lookup else None": the key is set only
\* when the id is truthy.
with_lookup_name(session, key, id_key, data) ==
    IF truthy_id(session, id_key)
    THEN (key :> name_or_none(find_by_id(data, session[id_key]))) @@ session
    ELSE session

\* main.py get_all_brew_sessions and get_brew_session: the names added to a
\* session.
with_lookup_names(session, d) ==
    with_lookup_name(with_lookup_name(session, "grinder", "grinder_id", d["grinders"]),
                     "filter", "filter_id", d["filters"])

\* BrewSessionRepository.find_by_batch
find_by_batch(all_data, batch_id) ==
    SelectSeq(all_data, LAMBDA s : get(s, "product_batch_id", None) = batch_id)

\* The record of a read: the sessions of the response, or that the handler
\* raised.
Response(op, ok, raised, response) ==
    Call([op |-> op, tbl |-> "brew_sessions", ok |-> ok, raised |-> raised,
          response |-> response])

\* GET /brew_sessions
get_all_brew_sessions ==
    /\ last' = Response("get_all_brew_sessions", TRUE, FALSE,
                   [i \in DOMAIN db["brew_sessions"] |->
                       with_lookup_names(db["brew_sessions"][i], db)])
    /\ prev' = NoCall
    /\ UNCHANGED <<db, now, pending, start, mig>>

\* GET /brew_sessions/<session_id>: 404 when the session is missing.
get_brew_session(session_id) ==
    LET session == find_by_id(db["brew_sessions"], session_id)
    IN /\ last' = Response("get_brew_session", session.id # None, FALSE,
                      IF session.id = None THEN <<>>
                      ELSE <<with_lookup_names(session, db)>>)
       /\ prev' = NoCall
       /\ UNCHANGED <<db, now, pending, start, mig>>

\* GET /batches/<batch_id>/brew_sessions: 404 when the batch is missing.
\* grinder_repo is a local name of handle_batch_brew_sessions that only the
\* POST branch assigns: the GET branch reads it unassigned, and raises
\* UnboundLocalError, for the first session whose grinder_id is truthy.
get_batch_brew_sessions(batch_id) ==
    LET batch == find_by_id(db["batches"], batch_id)
        sessions == find_by_batch(db["brew_sessions"], batch_id)
        unbound == \E i \in DOMAIN sessions : truthy_id(sessions[i], "grinder_id")
    IN /\ last' = Response("get_batch_brew_sessions", batch.id # None,
                      batch.id # None /\ unbound,
                      IF batch.id = None \/ unbound THEN <<>>
                      ELSE [i \in DOMAIN sessions |->
                               with_lookup_name(sessions[i], "filter", "filter_id",
                                                db["filters"])])
       /\ prev' = NoCall
       /\ UNCHANGED <<db, now, pending, start, mig>>

\* A call of api/utils.py enrich_brew_session_with_lookups on a stored
\* session ("if not session: return session").
enrich_brew_session(session_id) ==
    LET session == find_by_id(db["brew_sessions"], session_id)
    IN /\ last' = Response("enrich_brew_session_with_lookups", session.id # None, FALSE,
                      IF session.id = None THEN <<>>
                      ELSE <<enrich_brew_session_with_lookups(session, db)>>)
       /\ prev' = NoCall
       /\ UNCHANGED <<db, now, pending, start, mig>>

(* ------- SpecEnrich: brew sessions and the lookups they point at ------- *)

\* The bodies posted for a brew session: lookups by name, lookups by id
\* (ids that may resolve to nothing), or none.
EnrichSessions ==
    {[notes |-> "n"], [filter |-> <<"A">>], [grinder |-> <<"A">>],
     [filter |-> <<"A">>, grinder |-> <<"A">>]}
        \cup {[filter_id |-> i] : i \in 1..2} \cup {[grinder_id |-> i] : i \in 1..2}

EquipmentTables == {"filters", "grinders"}

NextEnrich ==
    \/ create_referring_product([roaster |-> <<"A">>])
    \/ \E p \in IdsFor("products") : handle_product_batches(p)
    \/ \E b \in IdsFor("batches"), data \in EnrichSessions :
          handle_batch_brew_sessions(b, data)
    \/ \E s \in IdsFor("brew_sessions") : delete_brew_session(s)
    \/ \E t \in EquipmentTables : \E id \in IdsFor(t) : delete_roaster(t, id)
    \/ get_all_brew_sessions
    \/ \E s \in IdsFor("brew_sessions") : get_brew_session(s)
    \/ \E b \in IdsFor("batches") : get_batch_brew_sessions(b)
    \/ \E s \in IdsFor("brew_sessions") : enrich_brew_session(s)

SpecEnrich == Init /\ [][NextEnrich]_vars

(* ------ SpecSessions: a brew session moved between products ------------ *)

\* The bodies put to a brew session that name a product and a batch.
SessionMoves == {[product_id |-> p, product_batch_id |-> b] : p \in Ids, b \in Ids}

NextSessions ==
    \/ \E data \in CascadeProducts : create_product(data)
    \/ \E p \in IdsFor("products") : handle_product_batches(p)
    \/ \E b \in IdsFor("batches"), data \in SessionData : handle_batch_brew_sessions(b, data)
    \/ \E s \in IdsFor("brew_sessions"), data \in SessionMoves : update_brew_session(s, data)
    \/ \E s \in IdsFor("brew_sessions"), data \in SessionMoves :
          batches_update_brew_session(s, data)
    \/ \E p \in IdsFor("products") : delete_product(p)
    \/ \E b \in IdsFor("batches") : delete_batch(b)
    \/ \E s \in IdsFor("brew_sessions") : delete_brew_session(s)

SpecSessions == Init /\ [][NextSessions]_vars

(* ---------- SpecActive: batches and their is_active flag ---------------- *)

\* The bodies posted for a batch: with or without an is_active flag.
ActiveBatches == {[rating |-> 1]} \cup {[is_active |-> b] : b \in BOOLEAN}

\* The bodies put to a batch: other fields only, or an is_active flag.
BatchUpdates == {[rating |-> r] : r \in 1..2} \cup {[is_active |-> b] : b \in BOOLEAN}

NextActive ==
    \/ \E data \in CascadeProducts : create_product(data)
    \/ \E p \in IdsFor("products") : handle_product_batches(p)
    \/ \E p \in IdsFor("products"), data \in ActiveBatches :
          products_handle_product_batches(p, data)
    \/ \E b \in IdsFor("batches"), data \in BatchUpdates : update_batch(b, data)
    \/ \E b \in IdsFor("batches") : delete_batch(b)
    \/ \E p \in IdsFor("products") : delete_product(p)

SpecActive == Init /\ [][NextActive]_vars

(* ------------------- multi-value lookup resolution --------------------- *)

\* api/utils.py resolve_lookup_field, allow_multiple, the loop over the ids:
\* an id that is None or 0 is skipped, an id that finds no item is skipped,
\* every other id appends the item found.
RECURSIVE resolve_ids(_, _)
resolve_ids(data, ids) ==
    IF ids = <<>> THEN <<>>
    ELSE IF Head(ids) # None /\ find_by_id(data, Head(ids)).id # None
    THEN <<find_by_id(data, Head(ids))>> \o resolve_ids(data, Tail(ids))
    ELSE resolve_ids(data, Tail(ids))

\* any(item['name'] == name for item in resolved_items)
any_named(resolved_items, name) ==
    \E i \in DOMAIN resolved_items : resolved_items[i].name = name

\* The loop over the names: a name that is empty or is the name of a
\* resolved item is skipped, every other name appends what get_or_create
\* returns.  The table after the loop and the items resolved.
RECURSIVE resolve_names(_, _, _, _)
resolve_names(data, names, resolved_items, t) ==
    IF names = <<>> THEN [table |-> data, items |-> resolved_items]
    ELSE IF Len(Head(names)) > 0 /\ ~any_named(resolved_items, Head(names))
    THEN LET item == get_or_create(data, Head(names), t)
         IN resolve_names(item.table, Tail(names), Append(resolved_items, item.item), t)
    ELSE resolve_names(data, Tail(names), resolved_items, t)

\* resolve_lookup_field(data, field_name, repository, allow_multiple=True)
resolve_lookup_field(data, ids, names, t) ==
    resolve_names(data, names, resolve_ids(data, ids), t)

\* A call of resolve_lookup_field for the bean types of a request.
ResolveLookupField(tbl, ids, names) ==
    LET resolved == resolve_lookup_field(db[tbl], ids, names, now)
    IN /\ db' = [db EXCEPT ![tbl] = resolved.table]
       /\ Bounded(db')
       /\ last' = Call([op |-> "resolve_lookup_field", tbl |-> tbl,
                        n_before |-> Len(db[tbl]), response |-> resolved.items])
       /\ prev' = NoCall
       /\ UNCHANGED <<now, pending, start, mig>>

(* ------- SpecResolve: the bean types a request lists ------------------- *)

\* The lists of at most two elements of S.
ListsOf(S) == {<<>>} \cup {<<x>> : x \in S} \cup {<<x, y>> : x \in S, y \in S}

\* The names a request lists: a name, the same name in another case, another
\* name, the empty name.
ResolveNames == { <<"A">>, <<"a">>, <<"B">>, <<>> }

NextResolve ==
    \/ \E data \in NameData : create_roaster("bean_types", data)
    \/ \E id \in IdsFor("bean_types") : delete_roaster("bean_types", id)
    \/ \E ids \in ListsOf(IdsFor("bean_types") \cup {None}), names \in ListsOf(ResolveNames) :
          ResolveLookupField("bean_types", ids, names)

SpecResolve == Init /\ [][NextResolve]_vars

(* --------------------------- smart defaults ---------------------------- *)

\* (now - created_at).days: one tick of the model's clock is a day.
days_ago(t, created_at) == t - created_at

\* The entities of a table that refer to a lookup record:
\* [p for p in products if p.get('roaster_id') == roaster_id].
referring_items(children, key, id) ==
    SelectSeq(children, LAMBDA item : get(item, key, None) = id)

\* The loop "recency_score = max(recency_score, max(0, 1.0 - days_ago /
\* window))" over the entities that have a created_at, in units of 1/window.
RECURSIVE recency_score(_, _, _)
recency_score(items, t, window) ==
    IF items = <<>> THEN 0
    ELSE LET rest == recency_score(Tail(items), t, window)
             this == IF "created_at" \in DOMAIN Head(items)
                     THEN Max({0, window - days_ago(t, Head(items).created_at)})
                     ELSE 0
         IN Max({rest, this})

\* RoasterRepository: combined_score = frequency_score * 0.7 + recency_score
\* * 0.3 with a window of 30 days, in units of 1/300.
roaster_score(d, roaster_id, t) ==
    LET roaster_products == referring_items(d["products"], "roaster_id", roaster_id)
    IN 210 * Len(roaster_products) + 3 * recency_score(roaster_products, t, 30)

\* GrinderRepository: combined_score = frequency_score * 0.6 + recency_score
\* * 0.4 with a window of 7 days, in units of 1/70.
grinder_score(d, grinder_id, t) ==
    LET grinder_sessions == referring_items(d["brew_sessions"], "grinder_id", grinder_id)
    IN 42 * Len(grinder_sessions) + 4 * recency_score(grinder_sessions, t, 7)

\* The scores of the records of a lookup table, in the order of the table.
scores_of(tbl, d, t) ==
    [i \in DOMAIN d[tbl] |->
        IF tbl = "roasters" THEN roaster_score(d, d[tbl][i].id, t)
        ELSE grinder_score(d, d[tbl][i].id, t)]

\* A max that returns the last of the keys with the highest score.
best_index_last(scores) ==
    CHOOSE i \in DOMAIN scores :
        /\ \A j \in DOMAIN scores : scores[j] <= scores[i]
        /\ \A j \in DOMAIN scores : scores[j] = scores[i] => j <= i

\* max(scores.keys(), key=lambda x: scores[x]): the first of the keys, in the
\* order they were put in the dict, with the highest score.
best_index(scores) ==
    CHOOSE i \in DOMAIN scores :
        /\ \A j \in DOMAIN scores : scores[j] <= scores[i]
        /\ \A j \in DOMAIN scores : scores[j] = scores[i] => i <= j

\* _calculate_smart_default of RoasterRepository and of GrinderRepository
\* (which falls back to grinders[0] unless the highest score is above 0).
calculate_smart_default(tbl, d, t) ==
    IF Len(d[tbl]) = 0 THEN NoRecord
    ELSE IF Len(d[tbl]) = 1 THEN d[tbl][1]
    ELSE IF tbl = "grinders" /\ \A i \in DOMAIN d[tbl] : scores_of(tbl, d, t)[i] <= 0
    THEN d[tbl][1]
    ELSE d[tbl][best_index(scores_of(tbl, d, t))]

\* get_smart_default: the manual default when there is one.
get_smart_default(tbl, d, t) ==
    IF find_default(d[tbl]).id # None THEN find_default(d[tbl])
    ELSE calculate_smart_default(tbl, d, t)

\* A call of get_smart_default on the repository of table tbl.
GetSmartDefault(tbl) ==
    /\ last' = Call([op |-> "get_smart_default", tbl |-> tbl,
                     ret |-> get_smart_default(tbl, db, now).id,
                     n_before |-> Len(db[tbl])])
    /\ prev' = NoCall
    /\ UNCHANGED <<db, now, pending, start, mig>>

(* ------ SpecSmart: lookups, what refers to them, and the clock --------- *)

\* A lookup table of n records, as n creates and set_default(d) leave it
\* (no set_default when d is None).
lookup_rows(n, d) ==
    [i \in 1..n |->
        IF i = d
        THEN [id |-> i, name |-> IF i = 1 THEN <<"A">> ELSE <<"B">>,
              created_at |-> 0, updated_at |-> 0, is_default |-> TRUE]
        ELSE [id |-> i, name |-> IF i = 1 THEN <<"A">> ELSE <<"B">>,
              created_at |-> 0, updated_at |-> 0]]

\* The tables of entities that refer to the records of a lookup table by
\* the field key, as creates up to the time t leave them: consecutive ids,
\* creation times in the order of the table, each entity referring to a
\* record or to a record that is gone.
referring_rows(key, t) ==
    UNION {{[i \in 1..k |-> (key :> f[i].ref) @@
                [id |-> i, created_at |-> f[i].at, updated_at |-> f[i].at]] :
              f \in {g \in [1..k -> [ref : 1..MaxRecords, at : 0..t]] :
                        \A i \in 1..k : \A j \in 1..k : i < j => g[i].at <= g[j].at}} :
           k \in 0..MaxRecords}

\* The data directory holds roasters and the products that name them, or
\* grinders and the brew sessions (of one batch of one product) that name
\* them; the clock stands at any time not before the last creation.
InitSmart ==
    /\ \E t \in 0..MaxClock :
          /\ now = t
          /\ \/ \E n \in 0..MaxRecords, d \in 0..MaxRecords,
                      products \in referring_rows("roaster_id", t) :
                   db = [tbl \in AllTables |->
                            IF tbl = "roasters" THEN lookup_rows(n, d)
                            ELSE IF tbl = "products" THEN products ELSE <<>>]
             \/ \E n \in 0..MaxRecords, d \in 0..MaxRecords,
                      sessions \in referring_rows("grinder_id", t) :
                   db = [tbl \in AllTables |->
                            IF tbl = "grinders" THEN lookup_rows(n, d)
                            ELSE IF tbl = "brew_sessions"
                            THEN [i \in DOMAIN sessions |->
                                     sessions[i] @@ [product_batch_id |-> 1, product_id |-> 1]]
                            ELSE IF tbl = "batches" /\ sessions # <<>>
                            THEN <<[id |-> 1, product_id |-> 1, created_at |-> 0,
                                    updated_at |-> 0]>>
                            ELSE IF tbl = "products" /\ sessions # <<>>
                            THEN <<[id |-> 1, created_at |-> 0, updated_at |-> 0]>>
                            ELSE <<>>]
    /\ last = NoCall
    /\ prev = NoCall
    /\ pending = [th \in Threads |-> Idle]
    /\ start = <<>>
    /\ mig = Started

NextSmart ==
    \/ Tick
    \/ \E tbl \in {"roasters", "grinders"} : GetSmartDefault(tbl)

SpecSmart == InitSmart /\ [][NextSmart]_vars

(* ------ SpecValidate: brew sessions with scores out of range ----------- *)

\* The bodies posted and put for a brew session: a grinder or a filter by
\* name, and a tasting score or an overall score in or out of range.
ScoredSessions ==
    {[grinder |-> n, sweetness |-> v] : n \in RefNames, v \in {5, 11}}
        \cup {[filter |-> <<"A">>, score |-> v] : v \in {0, 5}}

NextValidate ==
    \/ create_referring_product([roaster |-> <<"A">>])
    \/ \E p \in IdsFor("products") : handle_product_batches(p)
    \/ \E b \in IdsFor("batches"), data \in ScoredSessions :
          handle_batch_brew_sessions(b, data)
    \/ \E sid \in IdsFor("brew_sessions"), data \in ScoredSessions :
          update_brew_session(sid, data)
    \/ \E sid \in IdsFor("brew_sessions"), data \in ScoredSessions :
          batches_update_brew_session(sid, data)
    \/ \E sid \in IdsFor("brew_sessions") : delete_brew_session(sid)
    \/ \E t \in EquipmentTables : \E id \in IdsFor(t) : delete_roaster(t, id)

SpecValidate == Init /\ [][NextValidate]_vars

(* ----------------------------- migrations ------------------------------ *)

\* A version file that does not exist.
NoFile == <<>>

v1_0 == <<"1", ".", "0">>

v1_1 == <<"1", ".", "1">>

v1_2 == <<"1", ".", "2">>

v1_9 == <<"1", ".", "9">>

v1_10 == <<"1", ".", "1", "0">>

v1_0_0 == <<"1", ".", "0", ".", "0">>

\* The version strings a version file holds in the model.
Versions == {v1_0, v1_1, v1_2, v1_9, v1_10, v1_0_0}

digit(c) ==
    CASE c = "0" -> 0
      [] c = "1" -> 1
      [] c = "2" -> 2
      [] c = "9" -> 9

\* The release numbers of a version string, n being the number read so far.
RECURSIVE release(_, _)
release(s, n) ==
    IF s = <<>> THEN <<n>>
    ELSE IF Head(s) = "." THEN <<n>> \o release(Tail(s), 0)
    ELSE release(Tail(s), 10 * n + digit(Head(s)))

\* packaging.version.parse of a release version: its release numbers.
parse(v) == release(v, 0)

\* The i-th release number, 0 past the last (1.0 == 1.0.0).
component(r, i) == IF i <= Len(r) THEN r[i] ELSE 0

\* Version.__lt__ on release versions.
version_lt(a, b) ==
    \E i \in 1..Max({Len(a), Len(b)}) :
        /\ component(a, i) < component(b, i)
        /\ \A j \in 1..(i - 1) : component(a, j) = component(b, j)

ord(c) ==
    CASE c = "." -> 46
      [] c = "0" -> 48
      [] c = "1" -> 49
      [] c = "2" -> 50
      [] c = "9" -> 57

\* str.__lt__: the order of the strings themselves.
str_lt(a, b) ==
    \E i \in 1..Len(b) :
        /\ i > Len(a) \/ ord(a[i]) < ord(b[i])
        /\ \A j \in 1..(i - 1) : j <= Len(a) /\ a[j] = b[j]

\* get_current_schema_version: "0.0" when there is no schema file.
get_current_schema_version(m) ==
    IF m.schema_file = NoFile THEN <<"0", ".", "0">> ELSE m.schema_file

\* get_data_version: "1.0" when the data directory has no version file.
get_data_version(m) ==
    IF m.data_version_file = NoFile THEN v1_0 ELSE m.data_version_file

\* set_data_version
set_data_version(m, new_version) == [m EXCEPT !.data_version_file = new_version]

\* A needs_migration that compares the two strings.
needs_migration_by_string(m) ==
    str_lt(get_data_version(m), get_current_schema_version(m))

\* needs_migration
needs_migration(m) ==
    version_lt(parse(get_data_version(m)), parse(get_current_schema_version(m)))

\* The key f"{from_version}->{to_version}": the two strings as they are.
migration_key(from_version, to_version) == <<from_version, to_version>>

\* A get_migration_path that bridges a gap with two registered migrations.
get_migration_path_chained(m, from_version, to_version) ==
    IF migration_key(from_version, to_version) \in m.migrations
    THEN <<migration_key(from_version, to_version)>>
    ELSE IF \E mid \in Versions : /\ migration_key(from_version, mid) \in m.migrations
                                  /\ migration_key(mid, to_version) \in m.migrations
    THEN LET mid == CHOOSE v \in Versions : /\ migration_key(from_version, v) \in m.migrations
                                            /\ migration_key(v, to_version) \in m.migrations
         IN <<migration_key(from_version, mid), migration_key(mid, to_version)>>
    ELSE <<>>

\* get_migration_path: the direct migration or nothing.
get_migration_path(m, from_version, to_version) ==
    IF migration_key(from_version, to_version) \in m.migrations
    THEN <<migration_key(from_version, to_version)>>
    ELSE <<>>

\* The lookup files and the JSON files the migrations go through, in the
\* order of their lists (those of the tables of the model).
LookupFiles == <<"roasters", "bean_types", "grinders", "filters">>

JsonFiles ==
    <<"products", "batches", "brew_sessions", "roasters", "bean_types", "grinders", "filters">>

\* new_fields of migrate_1_0_to_1_1
new_fields ==
    [short_form |-> None, description |-> None, notes |-> None, url |-> None,
     image_url |-> None, icon |-> None]

\* A migration loop that sets the fields whether they are there or not.
add_overwriting(item, fields) == fields @@ item

\* An add-if-missing that tests the first field of a group and adds the
\* group: "if 'created_at' not in item" adding both timestamps.
add_missing_together(item, fields) ==
    IF \E f \in DOMAIN fields : f \in DOMAIN item THEN item ELSE item @@ fields

\* "if field not in item: item[field] = default", for each of the fields.
add_missing(item, fields) == item @@ fields

\* One file read, its items given the fields they lack, and written.
add_to_file(d, file, fields) ==
    [d EXCEPT ![file] = [i \in DOMAIN d[file] |-> add_missing(d[file][i], fields)]]

RECURSIVE add_to_files(_, _, _)
add_to_files(d, files, fields) ==
    IF files = <<>> THEN d
    ELSE add_to_files(add_to_file(d, Head(files), fields), Tail(files), fields)

\* migrate_1_0_to_1_1, n of its files done (all of them when it returns).
migrate_1_0_to_1_1(d, n) == add_to_files(d, SubSeq(LookupFiles, 1, n), new_fields)

\* migrate_1_1_to_1_2, n of its three passes done: the audit timestamps of
\* every file, is_active of the batches, is_default of the lookup files.
migrate_1_1_to_1_2(d, default_timestamp, n) ==
    LET timestamps ==
            IF n >= 1
            THEN add_to_files(d, JsonFiles,
                     [created_at |-> default_timestamp, updated_at |-> default_timestamp])
            ELSE d
        is_active ==
            IF n >= 2 THEN add_to_file(timestamps, "batches", [is_active |-> TRUE])
            ELSE timestamps
    IN IF n >= 3 THEN add_to_files(is_active, LookupFiles, [is_default |-> FALSE])
       ELSE is_active

\* MigrationManager.__init__: "self.migrations = {}".  get_migration_manager
\* constructs the manager and create_app uses it as constructed: nothing on
\* its path calls register_migration.
startup_migrations == {}

\* The migrations that are written, by the key they register under.
Registered == {migration_key(v1_0, v1_1), migration_key(v1_1, v1_2)}

\* The number of steps of the function registered under a key.
steps_of(migration_key_) ==
    IF migration_key_ = migration_key(v1_0, v1_1) THEN Len(LookupFiles) ELSE 3

\* self.migrations[migration_key](data_dir), n of its steps done.
migration_func(migration_key_, d, t, n) ==
    IF migration_key_ = migration_key(v1_0, v1_1) THEN migrate_1_0_to_1_1(d, n)
    ELSE migrate_1_1_to_1_2(d, t, n)

\* A migration function that returns without raising.
NoRaise == -1

\* The points at which a migration function may raise (an unreadable file,
\* an item that is no object): after none or one of its steps, or not at all.
Stops == {NoRaise, 0, 1}

\* The loop of run_migrations over migration_path; the first function raises
\* after stop steps unless stop is NoRaise.
RECURSIVE run_path(_, _, _, _)
run_path(migration_path, d, t, stop) ==
    IF migration_path = <<>> THEN [db |-> d, ran |-> <<>>, raised |-> FALSE]
    ELSE IF stop # NoRaise
    THEN [db |-> migration_func(Head(migration_path), d, t, stop),
          ran |-> <<Head(migration_path)>>, raised |-> TRUE]
    ELSE LET rest == run_path(Tail(migration_path),
                         migration_func(Head(migration_path), d, t,
                                        steps_of(Head(migration_path))),
                         t, NoRaise)
         IN [db |-> rest.db, ran |-> <<Head(migration_path)>> \o rest.ran,
             raised |-> rest.raised]

\* A run_migrations that stamps the data directory before the functions run.
run_migrations_stamps_first(m, d, t, stop) ==
    LET data_version == get_data_version(m)
        schema_version == get_current_schema_version(m)
        migration_path == get_migration_path(m, data_version, schema_version)
        done == run_path(migration_path, d, t, stop)
        stamped == set_data_version(m, schema_version)
    IN IF ~needs_migration(m) THEN [mig |-> [m EXCEPT !.returned = "True"], db |-> d]
       ELSE IF migration_path = <<>>
       THEN [mig |-> [m EXCEPT !.returned = "False"], db |-> d]
       ELSE IF done.raised
       THEN [mig |-> [stamped EXCEPT !.returned = "False", !.ran = done.ran,
                                     !.raised = TRUE],
             db |-> done.db]
       ELSE [mig |-> [stamped EXCEPT !.returned = "True", !.ran = done.ran],
             db |-> done.db]

\* run_migrations: what it returns, the functions it called, the version file
\* and the data files it leaves.
run_migrations(m, d, t, stop) ==
    LET data_version == get_data_version(m)
        schema_version == get_current_schema_version(m)
        migration_path == get_migration_path(m, data_version, schema_version)
        done == run_path(migration_path, d, t, stop)
        stamped == set_data_version(m, schema_version)
    IN IF ~needs_migration(m) THEN [mig |-> [m EXCEPT !.returned = "True"], db |-> d]
       ELSE IF migration_path = <<>>
       THEN [mig |-> [m EXCEPT !.returned = "False"], db |-> d]
       ELSE IF done.raised
       THEN [mig |-> [m EXCEPT !.returned = "False", !.ran = done.ran,
                               !.raised = TRUE],
             db |-> done.db]
       ELSE [mig |-> [stamped EXCEPT !.returned = "True", !.ran = done.ran],
             db |-> done.db]

\* An orchestration that goes from the check to the migrations.
after_check_no_backup(m) ==
    IF needs_migration(m) THEN "migrate"
    ELSE IF m.entry = "create_app" THEN "register" ELSE "exit0"

\* create_app and migrate_data.py --migrate after needs_migration(): the
\* backup when a migration is needed; otherwise create_app goes on to the
\* blueprints and the command line tool exits.
after_check(m) ==
    IF needs_migration(m) THEN "backup"
    ELSE IF m.entry = "create_app" THEN "register" ELSE "exit0"

\* if migration_manager.needs_migration():
CheckMigration ==
    /\ mig.pc = "start"
    /\ mig' = [mig EXCEPT !.pc = after_check(mig), !.needed = needs_migration(mig)]
    /\ UNCHANGED <<db, now, last, prev, pending, start>>

\* backup_dir = migration_manager.backup_data(): the copy is made, or
\* copytree raises; create_app catches the exception and goes on to the
\* blueprints, the command line tool ends with the traceback.
BackupData ==
    /\ mig.pc = "backup"
    /\ \E copied \in BOOLEAN :
          mig' = IF copied THEN [mig EXCEPT !.pc = "migrate", !.backed_up = TRUE]
                 ELSE [mig EXCEPT !.pc = IF mig.entry = "create_app" THEN "register"
                                         ELSE "crashed"]
    /\ UNCHANGED <<db, now, last, prev, pending, start>>

\* if migration_manager.run_migrations(): create_app logs the outcome and
\* goes on to the blueprints; the command line tool exits 0 or 1.
RunMigrations ==
    /\ mig.pc = "migrate"
    /\ \E stop \in Stops :
          LET run == run_migrations(mig, db, now, stop)
          IN /\ db' = run.db
             /\ mig' = [run.mig EXCEPT
                           !.pc = IF mig.entry = "create_app" THEN "register"
                                  ELSE IF run.mig.returned = "True" THEN "exit0"
                                  ELSE "exit1",
                           !.interrupted = @ \/ (run.mig.raised /\ run.db # db)]
    /\ UNCHANGED <<now, last, prev, pending, start>>

\* app.register_blueprint(api); app.register_blueprint(lookups); return app
RegisterBlueprints ==
    /\ mig.pc = "register"
    /\ mig' = [mig EXCEPT !.pc = "serving"]
    /\ UNCHANGED <<db, now, last, prev, pending, start>>

\* A request served by the application create_app returned.
ServeRequest ==
    /\ mig.pc = "serving"
    /\ \E id \in IdsFor("roasters") : SetDefault("roasters", id)

(* ------ SpecMigration: a process started on a data directory ----------- *)

\* The roasters and batches files found at the start: empty, written by a
\* version that knew none of the later fields, or holding some of them.
LegacyRoasters ==
    {<<>>,
     <<[id |-> 1, name |-> <<"A">>]>>,
     <<[id |-> 1, name |-> <<"A">>, is_default |-> TRUE, created_at |-> -1,
        short_form |-> <<"B">>]>>}

LegacyBatches ==
    {<<>>,
     <<[id |-> 1, product_id |-> 1]>>,
     <<[id |-> 1, product_id |-> 1, is_active |-> FALSE, updated_at |-> -1]>>}

InitMigration ==
    /\ \E roasters \in LegacyRoasters, batches \in LegacyBatches :
          db = [t \in AllTables |->
                   IF t = "roasters" THEN roasters
                   ELSE IF t = "batches" THEN batches ELSE <<>>]
    /\ now = 0
    /\ last = NoCall
    /\ prev = NoCall
    /\ pending = [th \in Threads |-> Idle]
    /\ start = <<>>
    /\ \E entry \in {"create_app", "migrate_data"},
          schema_file \in Versions \cup {NoFile},
          data_version_file \in Versions \cup {NoFile},
          migrations \in SUBSET Registered :
          mig = [Started EXCEPT !.entry = entry, !.pc = "start",
                                !.schema_file = schema_file,
                                !.data_version_file = data_version_file,
                                !.migrations = migrations,
                                !.found = db]

NextMigration ==
    \/ CheckMigration
    \/ BackupData
    \/ RunMigrations
    \/ RegisterBlueprints
    \/ ServeRequest

SpecMigration == InitMigration /\ [][NextMigration]_vars

(* ------ SpecRerun: the process started again on the same data --------- *)

\* The process has ended or is serving, and is started again later on the
\* data directory as it is: create_app or migrate_data.py --migrate begins
\* with the version files and the data files the last process left.
Restart ==
    /\ mig.pc \in {"serving", "exit0", "exit1", "crashed"}
    /\ now < MaxClock
    /\ now' = now + 1
    /\ \E entry \in {"create_app", "migrate_data"} :
          mig' = [mig EXCEPT !.entry = entry, !.pc = "start", !.needed = FALSE,
                             !.backed_up = FALSE, !.ran = <<>>, !.returned = "none",
                             !.raised = FALSE]
    /\ UNCHANGED <<db, last, prev, pending, start>>

NextRerun ==
    \/ CheckMigration
    \/ BackupData
    \/ RunMigrations
    \/ RegisterBlueprints
    \/ ServeRequest
    \/ Restart

SpecRerun == InitMigration /\ [][NextRerun]_vars

(* ---- SpecIdentifier: equipment named by name or by short form --------- *)

\* The identifiers a client sends for a grinder.
Identifiers == { <<"A">>, <<" ", "a", " ">>, <<"B">> }

\* The bodies posted to /grinders: a name, with or without a short form.
IdentifierData == {[name |-> <<"A">>], [name |-> <<"A">>, short_form |-> <<"B">>]}

NextIdentifier ==
    \/ \E data \in IdentifierData : create_roaster("grinders", data)
    \/ \E id \in IdsFor("grinders") : delete_roaster("grinders", id)
    \/ \E identifier \in Identifiers : GetOrCreateByIdentifier("grinders", identifier)
    \/ create_referring_product([roaster |-> <<"A">>])
    \/ \E p \in IdsFor("products") : handle_product_batches(p)
    \/ \E b \in IdsFor("batches"), identifier \in Identifiers :
          handle_batch_brew_sessions(b, [grinder |-> identifier])
    \/ \E s \in IdsFor("brew_sessions"), identifier \in Identifiers :
          batches_update_brew_session(s, [grinder |-> identifier])

SpecIdentifier == Init /\ [][NextIdentifier]_vars

(* ============================== claims ================================= *)

\* The number of records of a table whose is_default flag is True.
NumDefaults(data) == Cardinality({i \in DOMAIN data : is_true(data[i], "is_default")})

\* lower-cased, trimmed form of a name, as the specification words it.
TrimLower(n) == lower(strip(n))

\* C1: a successful set_default(Y) leaves Y's flag True and at most one record
\* of the table flagged; when the call before it was a successful
\* set_default(X) with X # Y, X's flag is False afterwards.
C1_SetDefaultExclusive ==
    (last.op = "set_default" /\ last.ok) =>
        /\ NumDefaults(db[last.tbl]) <= 1
        /\ is_true(find_by_id(db[last.tbl], last.id), "is_default")
        /\ (prev.op = "set_default" /\ prev.ok /\ prev.tbl = last.tbl /\ prev.id # last.id) =>
              /\ find_by_id(db[last.tbl], prev.id).id = prev.id
              /\ find_by_id(db[last.tbl], prev.id).is_default = FALSE

\* C1 witness: set_default(X) then set_default(Y), X # Y, both successful.
C1_Witness ==
    /\ last.op = "set_default" /\ last.ok
    /\ prev.op = "set_default" /\ prev.ok
    /\ prev.tbl = last.tbl /\ prev.id # last.id

\* C2: in every reachable state of every table at most one record has
\* is_default True (create, update, delete, set_default, clear_default).
C2_AtMostOneDefault == \A t \in AllTables : NumDefaults(db[t]) <= 1

\* C3 as stated: get_or_create(N) twice in sequence returns the same id and
\* the table has grown by exactly one record over the two calls.
C3_Original ==
    (/\ last.op = "get_or_create" /\ prev.op = "get_or_create"
     /\ last.tbl = prev.tbl /\ last.name = prev.name) =>
        /\ last.ret = prev.ret
        /\ Len(db[last.tbl]) = prev.n_before + 1

\* C3 amended: get_or_create(N) twice in sequence returns the same id, and
\* the table has grown by exactly one record over the two calls when no
\* record matched N before the first call, by none when one did.
C3_GetOrCreateTwice ==
    (/\ last.op = "get_or_create" /\ prev.op = "get_or_create"
     /\ last.tbl = prev.tbl /\ last.name = prev.name) =>
        /\ last.ret = prev.ret
        /\ Len(db[last.tbl]) = prev.n_before + (IF prev.found THEN 0 ELSE 1)

\* C3 witness: two get_or_create(N) in sequence, the first creating N.
C3_Witness ==
    /\ last.op = "get_or_create" /\ prev.op = "get_or_create"
    /\ last.tbl = prev.tbl /\ last.name = prev.name
    /\ ~prev.found

\* C4: get_or_create(n1) then get_or_create(n2), n1 and n2 equal after
\* trimming and lowercasing: the second call returns the first call's record
\* and adds no record.
C4_NormalizedIdentity ==
    (/\ last.op = "get_or_create" /\ prev.op = "get_or_create"
     /\ last.tbl = prev.tbl /\ TrimLower(last.name) = TrimLower(prev.name)) =>
        /\ last.ret = prev.ret
        /\ Len(db[last.tbl]) = last.n_before
        /\ \A i, j \in DOMAIN db[last.tbl] :
              (db[last.tbl][i].id = last.ret /\ db[last.tbl][j].id = last.ret) => i = j

\* C4 witness: "A" created by the first call, " a " resolved by the second.
C4_Witness ==
    /\ last.op = "get_or_create" /\ prev.op = "get_or_create"
    /\ last.tbl = prev.tbl /\ last.name # prev.name
    /\ TrimLower(last.name) = TrimLower(prev.name)
    /\ ~prev.found

\* C10: the ids of a table are pairwise distinct positive integers, and the
\* record a create appends has id 1 in an empty table, otherwise one more
\* than the largest id the table held.
C10_SequentialIds ==
    /\ \A t \in AllTables : \A i, j \in DOMAIN db[t] :
          /\ db[t][i].id >= 1
          /\ (i # j => db[t][i].id # db[t][j].id)
    /\ last.op = "create" =>
          /\ Len(db[last.tbl]) = last.n_before + 1
          /\ db[last.tbl][Len(db[last.tbl])].id = last.ret
          /\ last.n_before = 0 => last.ret = 1
          /\ last.n_before > 0 =>
                /\ \E i \in 1..last.n_before : db[last.tbl][i].id = last.ret - 1
                /\ \A i \in 1..last.n_before : db[last.tbl][i].id < last.ret

\* C10 witness: a create into a table whose smallest id was deleted.
C10_Witness ==
    /\ last.op = "create"
    /\ last.n_before > 0
    /\ last.ret > Len(db[last.tbl])

\* C5: after a successful delete of product p no batch and no brew session
\* has product_id p, after a successful delete of batch b no brew session has
\* product_batch_id b, and a lookup of any child that was deleted finds
\* nothing.
C5_CascadeDelete ==
    /\ (last.op = "delete_product" /\ last.ok) =>
          /\ find_by_id(db["products"], last.id).id = None
          /\ \A i \in DOMAIN db["batches"] :
                get(db["batches"][i], "product_id", None) # last.id
          /\ \A i \in DOMAIN db["brew_sessions"] :
                get(db["brew_sessions"][i], "product_id", None) # last.id
          /\ \A b \in last.held : find_by_id(db["batches"], b).id = None
          /\ \A s \in last.held_sessions : find_by_id(db["brew_sessions"], s).id = None
    /\ (last.op = "delete_batch" /\ last.ok) =>
          /\ find_by_id(db["batches"], last.id).id = None
          /\ \A i \in DOMAIN db["brew_sessions"] :
                get(db["brew_sessions"][i], "product_batch_id", None) # last.id
          /\ \A s \in last.held_sessions : find_by_id(db["brew_sessions"], s).id = None

\* C5 witness: a product deleted that had a batch and a brew session, while
\* another product stays.
C5_Witness ==
    /\ last.op = "delete_product" /\ last.ok
    /\ Cardinality(last.held) >= 1
    /\ last.held_sessions # {}
    /\ Len(db["products"]) > 0

\* The update_references handlers, by blueprint and lookup table.
ReferenceOps ==
    {"update_roaster_references", "api_update_roaster_references",
     "update_bean_type_references"}

\* The step is a handler serving update_references(last'.id, action, r), the
\* lookup record being there.
ReferencesStep(action, r) ==
    /\ last'.op \in ReferenceOps /\ last'.ok /\ last'.action = action
    /\ \/ /\ last'.op = "update_roaster_references"
          /\ update_roaster_references(last'.id, action, r)
       \/ /\ last'.op = "api_update_roaster_references"
          /\ api_update_roaster_references(last'.id, action, r)
       \/ /\ last'.op = "update_bean_type_references"
          /\ update_bean_type_references(last'.id, action, r)

\* The usage response of handler op's blueprint for id, the tables being d.
usage(op, d, id) ==
    CASE op = "update_roaster_references" -> check_roaster_usage(d, id)
      [] op = "api_update_roaster_references" -> api_check_roaster_usage(d, id)
      [] op = "update_bean_type_references" -> check_bean_type_usage(d, id)

\* The product holds a reference to record id of handler op's lookup table.
Refers(op, product, id) ==
    IF op = "update_bean_type_references"
    THEN Contains(get(product, "bean_type_id", <<>>), id)
    ELSE get(product, "roaster_id", None) = id

\* What C6 promises of a step: usage(lookup_id) no longer in use, usage(R)
\* at least what it was.
UsageMoved(op, id, r) ==
    /\ usage(op, db', id).in_use = FALSE
    /\ usage(op, db', r).status = 200
    /\ usage(op, db', r).usage_count >= usage(op, db, r).usage_count

C7_MissingReplacementIsNoOp ==
    [][\A r \in Ids :
          (ReferencesStep("replace", r) /\ find_by_id(db[last'.tbl], r).id = None)
          => (last'.updated_count = 0 /\ db'["products"] = db["products"])]_vars

\* C8: after update_references(lookup_id, "remove") every product that held
\* the reference has it cleared (roaster_id None, bean_type_id without
\* lookup_id), each of them was stored and counted, and usage(lookup_id)
\* reports usage_count 0.
C8_RemoveClears ==
    [][ReferencesStep("remove", None) =>
          /\ \A i \in DOMAIN db["products"] :
                Refers(last'.op, db["products"][i], last'.id) =>
                    /\ ~Refers(last'.op, db'["products"][i], last'.id)
                    /\ last'.tbl = "roasters" =>
                          get(db'["products"][i], "roaster_id", None) = None
          /\ last'.updated_count =
                Cardinality({i \in DOMAIN db["products"] :
                                Refers(last'.op, db["products"][i], last'.id)})
          /\ usage(last'.op, db', last'.id).usage_count = 0]_vars

\* The tables some sequential order of the calls of the threads S leaves,
\* starting from table data.
RECURSIVE Serial(_, _)
Serial(data, S) ==
    IF S = {} THEN {data}
    ELSE UNION {Serial(apply(pending[th], data, now), S \ {th}) : th \in S}

\* C9: when the concurrent calls on a table have all returned, the table is
\* what some sequential order of the same calls leaves, starting from the
\* table as it was before them: no created record is lost, no id given twice.
C9_Serializable ==
    (\A th \in Threads : pending[th].pc \in {"idle", "done"}) =>
        db[ConcTable] \in Serial(start, {th \in Threads : pending[th].pc = "done"})

\* C11: the record update() returns and stores has the created_at the record
\* had before the call, whatever fields the caller supplies (a created_at of
\* their own included), and an updated_at not below the one it had.
C11_CreatedAtPreserved ==
    [][(last'.op = "update" /\ last'.ok) =>
          LET before == find_by_id(db[last'.tbl], last'.id)
              after == find_by_id(db'[last'.tbl], last'.id)
          IN /\ before.id = last'.id => after.id = last'.id
             /\ (before.id = last'.id /\ after.id = last'.id) =>
                   /\ after.created_at = before.created_at
                   /\ after.updated_at >= before.updated_at]_vars

\* C11 witness: an update whose body carried a created_at of its own, served
\* after the clock moved on from the record's creation.
C11_Witness ==
    /\ last.op = "update" /\ last.ok /\ last.supplied
    /\ find_by_id(db[last.tbl], last.id).updated_at
          > find_by_id(db[last.tbl], last.id).created_at

\* The reads that enrich brew sessions with their lookups.
EnrichOps ==
    {"get_all_brew_sessions", "get_brew_session", "get_batch_brew_sessions",
     "enrich_brew_session_with_lookups"}

\* The session's id field key points at no record of the table.
Dangling(session, key, data) ==
    truthy_id(session, key) /\ find_by_id(data, session[key]).id = None

\* What C12 promises of a response: the handler did not raise, and each
\* session has None in the field of every lookup id that resolves to nothing.
EnrichedToNone(call, d) ==
    /\ ~call.raised
    /\ \A i \in DOMAIN call.response :
          /\ Dangling(call.response[i], "filter_id", d["filters"]) =>
                ("filter" \in DOMAIN call.response[i] /\ call.response[i].filter = {})
          /\ Dangling(call.response[i], "grinder_id", d["grinders"]) =>
                ("grinder" \in DOMAIN call.response[i] /\ call.response[i].grinder = {})

\* C12: a delete of a lookup record that is there succeeds, referenced or
\* not, and leaves the brew sessions and the products as they were; a read
\* that enriches a session yields None for every lookup field whose id does
\* not resolve, and does not raise.
C12_DanglingEnrichesToNone ==
    [][/\ \A t \in EquipmentTables, id \in Ids :
             (delete_roaster(t, id) /\ find_by_id(db[t], id).id # None) =>
                 /\ last'.ok
                 /\ find_by_id(db'[t], id).id = None
                 /\ db'["brew_sessions"] = db["brew_sessions"]
                 /\ db'["products"] = db["products"]
       /\ (last'.op \in EnrichOps /\ last'.ok) => EnrichedToNone(last', db')]_vars

\* The product and the batch a body names both exist, and the batch is not
\* one of the product's.
Mismatched(data, d) ==
    /\ find_by_id(d["products"], data.product_id).id # None
    /\ find_by_id(d["batches"], data.product_batch_id).id # None
    /\ find_by_id(d["batches"], data.product_batch_id).product_id # data.product_id

\* C13: an update of a brew session that names a product and a batch of
\* another product is rejected with a validation error (400), and the stored
\* session is left as it was.
C13_MismatchRejected ==
    [][\A s \in Ids, data \in SessionMoves :
          (/\ update_brew_session(s, data) \/ batches_update_brew_session(s, data)
           /\ find_by_id(db["brew_sessions"], s).id # None
           /\ Mismatched(data, db))
          => (last'.status = 400 /\ db'["brew_sessions"] = db["brew_sessions"])]_vars

\* The step is a call of run_migrations by the orchestration.
RunStep == mig.pc = "migrate" /\ mig'.pc # "migrate"

\* C14: when a migration is needed and no migration is registered under the
\* exact key "{data_version}->{schema_version}", run_migrations returns
\* failure, calls no migration function (registered migrations that would
\* bridge the gap included), and leaves the data files and the version file
\* as they were.
C14_NoPathFailsClosed ==
    [][(/\ RunStep
        /\ needs_migration(mig)
        /\ migration_key(get_data_version(mig), get_current_schema_version(mig))
              \notin mig.migrations)
       => (/\ mig'.returned = "False"
           /\ mig'.ran = <<>>
           /\ db' = db
           /\ mig'.data_version_file = mig.data_version_file)]_vars

\* C14 witness: run_migrations has returned failure on data of version 1.0
\* under schema 1.2, with 1.0->1.1 and 1.1->1.2 registered and no 1.0->1.2.
C14_Witness ==
    /\ mig.returned = "False" /\ mig.ran = <<>>
    /\ get_data_version(mig) = v1_0 /\ get_current_schema_version(mig) = v1_2
    /\ mig.migrations = Registered

\* C15: when a migration function raises, run_migrations returns failure and
\* the version file is what it was before the run; whenever it returns
\* failure the version file is what it was; when it returns success after
\* running a migration, data_version equals schema_version.
C15_StampOnlyOnSuccess ==
    [][RunStep =>
          /\ mig'.raised => mig'.returned = "False"
          /\ mig'.returned = "False" => mig'.data_version_file = mig.data_version_file
          /\ (mig'.returned = "True" /\ mig'.ran # <<>>) =>
                get_data_version(mig') = get_current_schema_version(mig')]_vars

\* C15 witness: a migration function raised after it had written a file.
C15_Witness ==
    /\ mig.raised /\ mig.returned = "False" /\ mig.ran # <<>>
    /\ \E i \in DOMAIN db["roasters"] : "updated_at" \in DOMAIN db["roasters"][i]

\* The number a release stands for, every release number being below 100 and
\* no release longer than three numbers.
Weight(r) == component(r, 1) * 10000 + component(r, 2) * 100 + component(r, 3)

\* C16: needs_migration() is true exactly when data_version is below
\* schema_version in the order of their release numbers; it is false when
\* the two are equal and when data_version is the greater.
C16_NeedsMigrationIffLess ==
    [][(mig.pc = "start" /\ mig'.pc # "start") =>
          (mig'.needed <=> Weight(parse(get_data_version(mig)))
                              < Weight(parse(get_current_schema_version(mig))))]_vars

\* C16 witness: data of version 1.9 under schema 1.10 was found to need a
\* migration.
C16_Witness ==
    /\ mig.pc = "backup" /\ mig.needed
    /\ mig.data_version_file = v1_9 /\ mig.schema_file = v1_10

\* Every field of every record of before has the same value in after.
Preserved(before, after) ==
    \A t \in AllTables :
        /\ Len(after[t]) = Len(before[t])
        /\ \A i \in DOMAIN before[t] : \A f \in DOMAIN before[t][i] :
              f \in DOMAIN after[t][i] /\ after[t][i][f] = before[t][i][f]

\* C17: a registered migration changes no field that is already on a record,
\* and run (at a later time) on the data it has migrated it changes nothing.
C17_MigrationIdempotent ==
    \A key \in Registered :
        LET once == migration_func(key, db, now, steps_of(key))
        IN /\ Preserved(db, once)
           /\ migration_func(key, once, now + 1, steps_of(key)) = once
           /\ (mig.ran = <<key>> /\ mig.returned = "True") =>
                 migration_func(key, db, now + 1, steps_of(key)) = db

\* C17 witness: 1.1->1.2 has run on a roaster that was flagged default.
C17_Witness ==
    /\ mig.ran = <<migration_key(v1_1, v1_2)>> /\ mig.returned = "True"
    /\ \E i \in DOMAIN db["roasters"] :
          /\ is_true(db["roasters"][i], "is_default")
          /\ "updated_at" \in DOMAIN db["roasters"][i]
    /\ \E i \in DOMAIN db["batches"] : db["batches"][i].is_active = FALSE

\* C18: a process whose data needed a migration that was not completed
\* (no path, a failed run, no backup) does not come to serve requests.
C18_NoServingAfterFailedMigration ==
    mig.pc = "serving" => ~(mig.needed /\ mig.returned # "True")

\* C19: a migration function is called only after backup_data() has
\* returned in the same run.
C19_BackupBeforeMigration == mig.ran # <<>> => mig.backed_up

\* C19 witness: a migration function has run, by create_app.
C19_Witness == mig.ran # <<>> /\ mig.backed_up /\ mig.entry = "create_app"

\* The identifier equals the record's name after trimming and lowercasing,
\* or its short form as it is.
Resolves(record, identifier) ==
    \/ "name" \in DOMAIN record /\ TrimLower(record.name) = TrimLower(identifier)
    \/ "short_form" \in DOMAIN record /\ record.short_form = identifier

\* What C20 promises of a step that resolved the identifier to record id of
\* table t: an existing record that the identifier names and no new record,
\* or, on a miss, one new record with the identifier as its name.
ResolvedAs(t, identifier, id) ==
    IF \E i \in DOMAIN db[t] : Resolves(db[t][i], identifier)
    THEN /\ db'[t] = db[t]
         /\ \E i \in DOMAIN db[t] : Resolves(db[t][i], identifier) /\ db[t][i].id = id
    ELSE /\ Len(db'[t]) = Len(db[t]) + 1
         /\ SubSeq(db'[t], 1, Len(db[t])) = db[t]
         /\ db'[t][Len(db'[t])].name = identifier
         /\ db'[t][Len(db'[t])].id = id

\* C20: an equipment identifier that is an existing record's name (whatever
\* its case and outer whitespace) or its short form resolves to that record
\* and creates none; a record named by the identifier is created only on a
\* miss.  This holds of get_or_create_by_identifier and of the brew-session
\* handlers that resolve the grinder a client names.
C20_IdentifierResolves ==
    [][\A identifier \in Identifiers :
          /\ GetOrCreateByIdentifier("grinders", identifier) =>
                ResolvedAs("grinders", identifier, last'.ret)
          /\ \A b \in Ids :
                (handle_batch_brew_sessions(b, [grinder |-> identifier]) /\ last'.ok) =>
                    ResolvedAs("grinders", identifier,
                        db'["brew_sessions"][Len(db'["brew_sessions"])].grinder_id)
          /\ \A sid \in Ids :
                (batches_update_brew_session(sid, [grinder |-> identifier]) /\ last'.ok) =>
                    ResolvedAs("grinders", identifier,
                        find_by_id(db'["brew_sessions"], sid).grinder_id)]_vars

\* C21: set_default(id) for an id that is not in the table raises the
\* not-found error and leaves every table as it was: a record that was the
\* default keeps its flag.
C21_SetDefaultMissingRaises ==
    [][\A id \in Ids :
          (SetDefault("roasters", id) /\ find_by_id(db["roasters"], id).id = None)
          => (~last'.ok /\ last'.ret = None /\ db' = db)]_vars

\* C21 witness: set_default raised for a missing id while the table had a
\* default record, which is still the default.
C21_Witness ==
    /\ last.op = "set_default" /\ ~last.ok
    /\ find_by_id(db[last.tbl], last.id).id = None
    /\ NumDefaults(db[last.tbl]) = 1

\* C22: an update of a batch whose body has no is_active leaves the batch
\* with the is_active it had stored: a batch created inactive is inactive
\* after an update of its other fields.
C22_UpdateKeepsIsActive ==
    [][\A b \in Ids, data \in BatchUpdates :
          (/\ update_batch(b, data) /\ last'.ok
           /\ "is_active" \notin DOMAIN data
           /\ "is_active" \in DOMAIN find_by_id(db["batches"], b))
          => /\ "is_active" \in DOMAIN find_by_id(db'["batches"], b)
             /\ find_by_id(db'["batches"], b).is_active
                   = find_by_id(db["batches"], b).is_active]_vars

\* C23: the list multi-value resolution returns for one request holds no
\* lookup record more than once, and every item of it is a record of the
\* table: ids that do not exist are skipped, a name that matches a resolved
\* item adds nothing.
C23_ResolvedOnce ==
    last.op = "resolve_lookup_field" =>
        /\ \A i, j \in DOMAIN last.response :
              i # j => last.response[i].id # last.response[j].id
        /\ \A i \in DOMAIN last.response :
              find_by_id(db[last.tbl], last.response[i].id).id # None

\* Every record of the files a migration goes through has the fields the
\* migration adds.
Complete(d, key) ==
    IF key = migration_key(v1_0, v1_1)
    THEN \A i \in DOMAIN LookupFiles : \A j \in DOMAIN d[LookupFiles[i]] :
            DOMAIN new_fields \subseteq DOMAIN d[LookupFiles[i]][j]
    ELSE /\ \A i \in DOMAIN JsonFiles : \A j \in DOMAIN d[JsonFiles[i]] :
               {"created_at", "updated_at"} \subseteq DOMAIN d[JsonFiles[i]][j]
         /\ \A j \in DOMAIN d["batches"] : "is_active" \in DOMAIN d["batches"][j]
         /\ \A i \in DOMAIN LookupFiles : \A j \in DOMAIN d[LookupFiles[i]] :
               "is_default" \in DOMAIN d[LookupFiles[i]][j]

\* C24: a run of the migrations keeps every field value the records had;
\* when an earlier run on the data raised after it had rewritten files, the
\* run that completes the same migration leaves every record with every
\* added field and, no request having been served in between, every field
\* value of the data as the first run found it.
C24_RerunCompletes ==
    [][RunStep =>
          /\ Preserved(db, db')
          /\ (mig.interrupted /\ mig'.returned = "True" /\ mig'.ran # <<>>) =>
                /\ Complete(db', mig'.ran[1])
                /\ last.op = "none" => Preserved(mig.found, db')]_vars

\* C24 witness: a run raised after it had given the roaster its timestamps,
\* and a later run of the same migration completed on a roaster and a batch
\* that had fields of their own.
C24_Witness ==
    /\ mig.interrupted /\ mig.returned = "True"
    /\ mig.ran = <<migration_key(v1_1, v1_2)>>
    /\ last.op = "none"
    /\ \E i \in DOMAIN db["roasters"] :
          /\ db["roasters"][i].created_at = -1
          /\ db["roasters"][i].updated_at < now
    /\ \E i \in DOMAIN db["batches"] : db["batches"][i].is_active = FALSE

\* The combined score of the record at position i of a lookup table, as the
\* specification defines it: the number of referring entities times W_freq
\* plus max(0, 1 - days since the newest of them was created / WINDOW) times
\* W_recency (70/30 and 30 days for roasters, 60/40 and 7 days for grinders),
\* in units of 1/2100.
CombinedScore(tbl, i) ==
    LET window == IF tbl = "roasters" THEN 30 ELSE 7
        w_freq == IF tbl = "roasters" THEN 70 ELSE 60
        children == IF tbl = "roasters" THEN db["products"] ELSE db["brew_sessions"]
        key == IF tbl = "roasters" THEN "roaster_id" ELSE "grinder_id"
        refs == {j \in DOMAIN children : get(children[j], key, None) = db[tbl][i].id}
        newest == Max({children[j].created_at : j \in refs})
        recency == IF refs = {} THEN 0 ELSE Max({0, window - (now - newest)})
    IN IF tbl = "roasters" THEN 21 * w_freq * Cardinality(refs) + 21 * recency
       ELSE 21 * w_freq * Cardinality(refs) + 120 * recency

\* C25: with no manual default and more than one record, get_smart_default
\* returns the record with the highest combined score, the first of them in
\* the table's order when several have it, and so the first record of the
\* table when every score is zero.
C25_SmartDefaultHighest ==
    [][\A tbl \in {"roasters", "grinders"} :
          (/\ GetSmartDefault(tbl)
           /\ find_default(db[tbl]).id = None
           /\ Len(db[tbl]) > 1) =>
              \E k \in DOMAIN db[tbl] :
                  /\ db[tbl][k].id = last'.ret
                  /\ \A j \in DOMAIN db[tbl] :
                        /\ CombinedScore(tbl, j) <= CombinedScore(tbl, k)
                        /\ j < k => CombinedScore(tbl, j) < CombinedScore(tbl, k)
                  /\ (\A j \in DOMAIN db[tbl] : CombinedScore(tbl, j) = 0) => k = 1]_vars

\* C25 witness: two roasters with the same score above zero, the one the
\* call returned being the first of the table.
C25_Witness ==
    /\ last.op = "get_smart_default" /\ last.tbl = "roasters"
    /\ find_default(db["roasters"]).id = None
    /\ Len(db["roasters"]) = 2
    /\ CombinedScore("roasters", 1) = CombinedScore("roasters", 2)
    /\ CombinedScore("roasters", 1) > 0
    /\ db["roasters"][1].id = last.ret

\* C26: in every reachable state every stored brew session's
\* product_batch_id is the id of a stored batch and every stored batch's
\* product_id is the id of a stored product: the cascading deletes leave no
\* orphaned child, whatever updates came before them.
C26_NoOrphans ==
    /\ \A i \in DOMAIN db["brew_sessions"] :
          find_by_id(db["batches"],
                     get(db["brew_sessions"][i], "product_batch_id", None)).id # None
    /\ \A i \in DOMAIN db["batches"] :
          find_by_id(db["products"], get(db["batches"][i], "product_id", None)).id # None

\* C27: in every reachable state each stored brew session's product_id is
\* the product_id of the batch its product_batch_id identifies, whatever
\* brew-session creates and updates and batch updates came before.
C27_SessionProductIsBatchProduct ==
    \A i \in DOMAIN db["brew_sessions"] :
        LET session == db["brew_sessions"][i]
            batch == find_by_id(db["batches"], get(session, "product_batch_id", None))
        IN batch.id # None => get(session, "product_id", None) = batch.product_id

\* C28: a brew-session create or update that is rejected with a validation
\* error (a tasting score or an overall score out of range) leaves every
\* table as it was, the equipment lookup tables included: the rejected
\* request creates no lookup record.
C28_RejectedWritesNothing ==
    [][\A id \in Ids, data \in ScoredSessions :
          (/\ \/ handle_batch_brew_sessions(id, data)
              \/ update_brew_session(id, data)
              \/ batches_update_brew_session(id, data)
           /\ ~valid_scores(data)
           /\ last'.status = 400)
          => db' = db]_vars

C30_StartupMigratesOneStep ==
    (/\ mig.entry = "create_app"
     /\ mig.migrations = startup_migrations
     /\ mig.schema_file = v1_2
     /\ mig.needed
     /\ mig.backed_up
     /\ mig.data_version_file \in {v1_1, v1_2}
     /\ mig.pc = "serving")
    => /\ migration_key(v1_1, v1_2) \in mig.migrations
       /\ mig.data_version_file = mig.schema_file

====
